---- MODULE Spec2Model ----
(***************************************************************************)
(* State-machine model of the mail Header of tessro/go-mail: the ordered   *)
(* field list with its cached verification (verify / Valid), Add,          *)
(* RemoveAt, RemoveAllNamed, Repair and Simplify, as written in            *)
(* src/parts.go (the Header half of that file) and src/fields.go.          *)
(***************************************************************************)
EXTENDS Integers, Sequences, FiniteSets, TLC

(* ----------------------------- bounds ---------------------------------- *)

\* longest field list the Add action builds
MaxFields == 3
\* longest address list one field may hold after merging
MaxAddrs == 3
\* number of Add calls in the Add-only specification
MaxAdds == 3

(* ------------------------- program constants --------------------------- *)

RFC5322Header == "RFC5322Header"
MIMEHeader == "MIMEHeader"
TextPlainContentType == "TextPlainContentType"
MessageRFC822ContentType == "MessageRFC822ContentType"

FromFieldName == "From"
SenderFieldName == "Sender"
ReturnPathFieldName == "Return-Path"
ReplyToFieldName == "Reply-To"
ToFieldName == "To"
CcFieldName == "Cc"
BccFieldName == "Bcc"
MessageIDFieldName == "Message-Id"
ReferencesFieldName == "References"
DateFieldName == "Date"
SubjectFieldName == "Subject"
ReceivedFieldName == "Received"
ContentTypeFieldName == "Content-Type"
ContentTransferEncodingFieldName == "Content-Transfer-Encoding"
ContentDispositionFieldName == "Content-Disposition"
ContentDescriptionFieldName == "Content-Description"
MIMEVersionFieldName == "Mime-Version"
ContentLocationFieldName == "Content-Location"
ContentBaseFieldName == "Content-Base"
ErrorsToFieldName == "Errors-To"

BinaryEncoding == "BinaryEncoding"
QPEncoding == "QPEncoding"
Base64Encoding == "Base64Encoding"

\* the names of fieldNames that Repair's retain-first-valid loop looks at,
\* in the order of the fieldNames table
fieldNames ==
    << FromFieldName, SenderFieldName, ReturnPathFieldName, ReplyToFieldName,
       ToFieldName, CcFieldName, BccFieldName, MessageIDFieldName,
       ReferencesFieldName, DateFieldName, SubjectFieldName,
       ContentTypeFieldName, ContentTransferEncodingFieldName,
       ContentDispositionFieldName, ContentDescriptionFieldName,
       MIMEVersionFieldName, ContentLocationFieldName, ContentBaseFieldName,
       ErrorsToFieldName >>

\* the names for which Header.addressField returns an AddressField
AddressFieldNameSet ==
    { FromFieldName, SenderFieldName, ReturnPathFieldName, ReplyToFieldName,
      ToFieldName, CcFieldName, BccFieldName, MessageIDFieldName,
      ReferencesFieldName }

Cond(n, lo, hi, m) == [name |-> n, min |-> lo, max |-> hi, m |-> m]

conditions ==
    << Cond(SenderFieldName, 0, 1, RFC5322Header),
       Cond(ReplyToFieldName, 0, 1, RFC5322Header),
       Cond(ToFieldName, 0, 1, RFC5322Header),
       Cond(CcFieldName, 0, 1, RFC5322Header),
       Cond(BccFieldName, 0, 1, RFC5322Header),
       Cond(MessageIDFieldName, 0, 1, RFC5322Header),
       Cond(ReferencesFieldName, 0, 1, RFC5322Header),
       Cond(SubjectFieldName, 0, 1, RFC5322Header),
       Cond(FromFieldName, 1, 1, RFC5322Header),
       Cond(DateFieldName, 1, 1, RFC5322Header),
       Cond(MIMEVersionFieldName, 0, 1, RFC5322Header),
       Cond(MIMEVersionFieldName, 0, 1, MIMEHeader),
       Cond(ContentTypeFieldName, 0, 1, RFC5322Header),
       Cond(ContentTypeFieldName, 0, 1, MIMEHeader),
       Cond(ContentTransferEncodingFieldName, 0, 1, RFC5322Header),
       Cond(ContentTransferEncodingFieldName, 0, 1, MIMEHeader),
       Cond(ReturnPathFieldName, 0, 1, RFC5322Header) >>

(* ------------------------------ fields --------------------------------- *)

\* An Address: display name, localpart, domain.
Addr(n, lp, dom) == [name |-> n, Localpart |-> lp, Domain |-> dom]

AddrA == Addr("", "a", "x.example")
AddrB == Addr("", "b", "x.example")

\* A parsed Field.  value is HeaderField.value (for MIME fields the
\* baseValue), err is TRUE when HeaderField.err is non-nil; the remaining
\* attributes are the ones of the variant (AddressField.Addresses,
\* MimeField.Parameters as the list of parameter names, ContentType.Type and
\* Subtype, ContentTransferEncoding.Encoding, ContentDisposition.Disposition)
\* and are empty for the other variants.
Fld(n, v, e, as, ps, t, st, enc, disp) ==
    [name |-> n, value |-> v, err |-> e, Addresses |-> as, Parameters |-> ps,
     Type |-> t, Subtype |-> st, Encoding |-> enc, Disposition |-> disp]

TextField(n, v, e) == Fld(n, v, e, <<>>, <<>>, "", "", "", "")
NewAddressField(n, as, e) == Fld(n, "", e, as, <<>>, "", "", "", "")
NewContentType(t, st, ps, e) ==
    Fld(ContentTypeFieldName, IF e THEN "" ELSE t \o "/" \o st, e, <<>>, ps, t, st, "", "")
NewContentTransferEncoding(base, enc, e) ==
    Fld(ContentTransferEncodingFieldName, base, e, <<>>, <<>>, "", "", enc, "")
NewContentDisposition(disp, ps) ==
    Fld(ContentDispositionFieldName, disp, FALSE, <<>>, ps, "", "", "", disp)

\* Field.Valid
FieldValid(f) == ~f.err

\* Field.rfc822(false): the address list for an AddressField, base value
\* and parameters for a MimeField, the value otherwise.
rfc822(f) ==
    IF f.name \in AddressFieldNameSet THEN <<"addresses", f.Addresses>>
    ELSE IF f.name \in { ContentTypeFieldName, ContentTransferEncodingFieldName,
                         ContentDispositionFieldName }
         THEN <<"mime", f.value, f.Parameters>>
         ELSE <<"text", f.value>>

(* ---------------------- the Header and its lookups --------------------- *)

\* A Header value: the field list with the cached verification result.
\* err is <<>> for nil, otherwise the error that verify recorded.
Hdr(F, e, v) == [Fields |-> F, err |-> e, verified |-> v]

\* indexes of the fields named fn, in field order
Named(F, fn) == { i \in DOMAIN F : F[i].name = fn }

\* occurrences[fn]
Occurrences(F, fn) == Cardinality(Named(F, fn))

Min(S) == CHOOSE x \in S : \A y \in S : x <= y

RECURSIVE NthOf(_, _)
\* the n-th smallest element of S (n counted from 0), 0 when there is none
NthOf(S, n) ==
    IF S = {} THEN 0
    ELSE IF n = 0 THEN Min(S) ELSE NthOf(S \ {Min(S)}, n - 1)

\* Header.field(fn, n) as an index into the field list; 0 stands for nil
field(F, fn, n) == NthOf(Named(F, fn), n)

\* Header.addressField(fn, n), again as an index
addressField(F, fn, n) ==
    IF fn \in AddressFieldNameSet THEN field(F, fn, n) ELSE 0

\* Header.Addresses(fn): nil is the empty list
Addresses(F, fn) ==
    IF addressField(F, fn, 0) = 0 THEN <<>> ELSE F[addressField(F, fn, 0)].Addresses

\* append(h.Fields[:i], h.Fields[i+1:]...), i counted from 1
RemoveAtSeq(F, i) == SubSeq(F, 1, i - 1) \o SubSeq(F, i + 1, Len(F))

\* Header.RemoveAt: the cached verification is left as it is
hRemoveAt(h, i) == [h EXCEPT !.Fields = RemoveAtSeq(h.Fields, i)]

\* Header.RemoveAllNamed
hRemoveAllNamed(h, n) ==
    [h EXCEPT !.Fields = SelectSeq(h.Fields, LAMBDA f : f.name # n)]

MergedNames ==
    { ToFieldName, CcFieldName, BccFieldName, ReplyToFieldName, FromFieldName }

\* addField without the merge branch: every field is appended
addField_NoMerge(h, f) ==
    [h EXCEPT !.Fields = Append(@, f), !.verified = FALSE]

\* Header.addField
addField(h, f) ==
    IF f.name \in MergedNames /\ addressField(h.Fields, f.name, 0) # 0
    THEN LET k == addressField(h.Fields, f.name, 0)
         IN  [h EXCEPT !.Fields[k].Addresses = @ \o f.Addresses]
    ELSE [h EXCEPT !.Fields = Append(@, f), !.verified = FALSE]

(* ------------------------------ verify --------------------------------- *)

\* the test of the occurrence loop:
\*   m == h.mode && occurrences < min || occurrences > max
ConditionFails(c, F, m) ==
    (c.m = m /\ Occurrences(F, c.name) < c.min) \/ Occurrences(F, c.name) > c.max

\* the error a verification of the field list F from scratch records
verifyErr(F, m) ==
    IF \E i \in DOMAIN F : ~FieldValid(F[i])
    THEN <<"field", F[Min({ i \in DOMAIN F : ~FieldValid(F[i]) })].name>>
    ELSE IF \E i \in DOMAIN conditions : ConditionFails(conditions[i], F, m)
         THEN LET i == Min({ k \in DOMAIN conditions : ConditionFails(conditions[k], F, m) })
              IN  IF conditions[i].max < Occurrences(F, conditions[i].name)
                  THEN <<"at most", conditions[i].name>>
                  ELSE <<"at least", conditions[i].name>>
         ELSE <<>>

\* Header.verify
verify(h, m) ==
    IF h.verified THEN h
    ELSE [h EXCEPT !.verified = TRUE, !.err = verifyErr(h.Fields, m)]

\* the value Header.Valid() returns
Valid(h, m) == verify(h, m).err = <<>>

(* ------------------------------ Repair --------------------------------- *)

RECURSIVE SeqOfIdx(_, _)
\* the fields of F at the indexes of S, in field order
SeqOfIdx(F, S) ==
    IF S = {} THEN <<>>
    ELSE <<F[Min(S)]>> \o SeqOfIdx(F, S \ {Min(S)})

RECURSIVE RepairDupLoop(_, _, _, _, _)
\* the inner loop of Repair's first pass: every field named cname after the
\* first one whose rfc822 form equals that of the first one (hf) is removed
RepairDupLoop(F, cname, hf, n, j) ==
    IF j > Len(F) THEN F
    ELSE IF F[j].name = cname
         THEN IF n + 1 > 1 /\ rfc822(hf) = rfc822(F[j])
              THEN RepairDupLoop(RemoveAtSeq(F, j), cname, hf, n + 1, j)
              ELSE RepairDupLoop(F, cname, hf, n + 1, j + 1)
         ELSE RepairDupLoop(F, cname, hf, n, j + 1)

RECURSIVE RepairDuplicates(_, _, _, _)
\* the outer loop over conditions; F0 is the field list the occurrences were
\* counted on
RepairDuplicates(F, F0, m, i) ==
    IF i > Len(conditions) THEN F
    ELSE IF conditions[i].m = m /\ Occurrences(F0, conditions[i].name) > conditions[i].max
         THEN RepairDuplicates(
                  RepairDupLoop(F, conditions[i].name,
                                F[field(F, conditions[i].name, 0)], 0, 1),
                  F0, m, i + 1)
         ELSE RepairDuplicates(F, F0, m, i + 1)

RECURSIVE ContentTypeScan(_, _, _, _, _)
\* the scan over the Content-Type fields: good is the index of the one with
\* parameters (0 for nil), bad is set when they disagree or two have
\* parameters
ContentTypeScan(F, ct, n, good, bad) ==
    LET other == field(F, ContentTypeFieldName, n) IN
    IF other = 0 \/ bad THEN [good |-> good, bad |-> bad]
    ELSE IF F[other].Type # F[ct].Type \/ F[other].Subtype # F[ct].Subtype
         THEN ContentTypeScan(F, ct, n + 1, good, TRUE)
         ELSE IF Len(F[other].Parameters) > 0
              THEN ContentTypeScan(F, ct, n + 1, other, good # 0)
              ELSE ContentTypeScan(F, ct, n + 1, good, bad)

\* second pass: several Content-Type fields that agree, one with parameters
RepairContentTypes(F, F0) ==
    IF Occurrences(F0, ContentTypeFieldName) > 1
    THEN LET r == ContentTypeScan(F, field(F, ContentTypeFieldName, 0), 0, 0, FALSE)
         IN  IF r.good # 0 /\ ~r.bad
             THEN SeqOfIdx(F, { i \in DOMAIN F :
                                  ~(F[i].name = ContentTypeFieldName /\ i # r.good) })
             ELSE F
    ELSE F

RetainedNames ==
    { DateFieldName, ReturnPathFieldName, MessageIDFieldName,
      ContentTypeFieldName, ReferencesFieldName }

RECURSIVE RepairRetainFirstValid(_, _, _)
\* third pass, over fieldNames: keep the first valid field of the name
RepairRetainFirstValid(F, F0, k) ==
    IF k > Len(fieldNames) THEN F
    ELSE LET name == fieldNames[k]
             valid == { i \in Named(F, name) : FieldValid(F[i]) }
             alsoValid == name # ContentTypeFieldName
         IN  IF Occurrences(F0, name) > 1 /\ name \in RetainedNames /\ valid # {}
             THEN RepairRetainFirstValid(
                      SeqOfIdx(F, { i \in DOMAIN F :
                                      ~(F[i].name = name /\ i # Min(valid)
                                        /\ (alsoValid \/ ~FieldValid(F[i]))) }),
                      F0, k + 1)
             ELSE RepairRetainFirstValid(F, F0, k + 1)

\* the text parseMimeVersion leaves for
\* "1.0 (Note: original message contained %d MIME-Version fields)"
MimeVersionNote(n) ==
    "1.0(Note: original message contained " \o ToString(n) \o " MIME-Version fields)"

\* fourth pass: the second Mime-Version field is removed, the first reparsed
RepairMimeVersion(F, F0) ==
    IF field(F, MIMEVersionFieldName, 1) # 0
    THEN LET G == RemoveAtSeq(F, field(F, MIMEVersionFieldName, 1))
         IN  [G EXCEPT ![field(G, MIMEVersionFieldName, 0)].value =
                           MimeVersionNote(Occurrences(F0, MIMEVersionFieldName))]
    ELSE F

\* ct != nil && ct.Type == "multipart" || ct.Type == "message" reads ct.Type
\* of a nil ct when there is no Content-Type field
RepairCTEFails(F, F0) ==
    /\ Occurrences(F0, ContentTransferEncodingFieldName) > 0
    /\ field(F, ContentTypeFieldName, 0) = 0

\* fifth pass: Content-Transfer-Encoding on multipart or message
RepairCTE(F, F0) ==
    IF Occurrences(F0, ContentTransferEncodingFieldName) > 0
       /\ field(F, ContentTypeFieldName, 0) # 0
       /\ F[field(F, ContentTypeFieldName, 0)].Type \in {"multipart", "message"}
    THEN SelectSeq(F, LAMBDA f : f.name # ContentTransferEncodingFieldName)
    ELSE F

RECURSIVE SenderDifference(_, _, _, _)
\* for i < len(sender) && difference { ... }, entered with difference false
SenderDifference(sender, from, i, difference) ==
    IF i <= Len(sender) /\ difference
    THEN SenderDifference(sender, from, i + 1,
                          IF sender[i] \notin from THEN TRUE ELSE difference)
    ELSE difference

\* last pass: Sender; both from and sender are built from the From addresses
RepairSender(F, F0) ==
    IF Occurrences(F0, SenderFieldName) > 0 /\ Len(Addresses(F, SenderFieldName)) # 1
    THEN LET fromList == Addresses(F, FromFieldName)
             from == { fromList[i] : i \in DOMAIN fromList }
         IN  IF ~SenderDifference(fromList, from, 1, FALSE)
             THEN SelectSeq(F, LAMBDA f : f.name # SenderFieldName)
             ELSE F
    ELSE F

\* the passes of Repair on the field list up to the Mime-Version pass; F0 is
\* the field list the occurrences were counted on
RepairPasses(F0, m) ==
    RepairMimeVersion(
        RepairRetainFirstValid(
            RepairContentTypes(RepairDuplicates(F0, F0, m, 1), F0), F0, 1), F0)

\* the passes on Content-Transfer-Encoding and Sender, or the failure that
\* ends the call
RepairTail(h, F, F0) ==
    IF RepairCTEFails(F, F0)
    THEN [h |-> [h EXCEPT !.Fields = F], failure |-> "nil pointer dereference"]
    ELSE [h |-> [h EXCEPT !.Fields = RepairSender(RepairCTE(F, F0), F0)],
          failure |-> "none"]

\* Header.Repair without its guard: the passes in order on the field list.
\* The result carries the failure that ends the call, if any.
RepairBody(h, m) == RepairTail(h, RepairPasses(h.Fields, m), h.Fields)

\* Repair without the early return for a valid header
Repair_NoGuard(h, m) == RepairBody(verify(h, m), m)

\* Header.Repair
Repair(h, m) ==
    IF Valid(h, m) THEN [h |-> verify(h, m), failure |-> "none"]
    ELSE RepairBody(verify(h, m), m)

(* ------------------------------ Simplify ------------------------------- *)

\* strings.ToTitle and strings.ToLower on the strings the model uses
CaseTable == { <<"x.example", "X.EXAMPLE">>, <<"a", "A">>, <<"b", "B">> }
ToTitle(str) ==
    IF \E p \in CaseTable : p[1] = str
    THEN (CHOOSE p \in CaseTable : p[1] = str)[2] ELSE str
ToLower(str) ==
    IF \E p \in CaseTable : p[2] = str
    THEN (CHOOSE p \in CaseTable : p[2] = str)[1] ELSE str

\* Address.lpdomain of a Normal address with a sensible localpart
lpdomain(a) == a.Localpart \o "@" \o a.Domain

\* the key of Uniquify
UniquifyKey(a) == <<ToTitle(a.Localpart), "@", ToTitle(a.Domain)>>

RECURSIVE UniquifyLoop(_, _, _)
UniquifyLoop(as, i, unique) ==
    IF i > Len(as) THEN unique
    ELSE LET a == as[i]
             seen == { ix \in DOMAIN unique : UniquifyKey(unique[ix]) = UniquifyKey(a) }
         IN  IF seen = {}
             THEN UniquifyLoop(as, i + 1, Append(unique, a))
             ELSE IF unique[Min(seen)].name = "" /\ a.name # ""
                  THEN UniquifyLoop(as, i + 1, [unique EXCEPT ![Min(seen)] = a])
                  ELSE UniquifyLoop(as, i + 1, unique)

\* Addresses.Uniquify
Uniquify(as) == IF Len(as) = 0 THEN as ELSE UniquifyLoop(as, 1, <<>>)

\* the list Simplify ranges over to uniquify the first field of each name
addressFieldNames == AddressFieldNameSet

\* the first loop of Simplify
UniquifyFields(F) ==
    [i \in DOMAIN F |->
        IF \E fn \in addressFieldNames : addressField(F, fn, 0) = i
        THEN [F[i] EXCEPT !.Addresses = Uniquify(@)]
        ELSE F[i]]

\* the key sameAddresses builds for one address
SameKey(a) == <<a.Localpart, "@", ToTitle(a.Domain)>>

\* sameAddresses(a, b) on the address lists of two fields; nilA and nilB say
\* that the field is missing.  Both maps are built from the first list.
sameAddresses(nilA, l, nilB, m) ==
    IF nilA \/ nilB THEN FALSE
    ELSE IF Len(l) # Len(m) THEN FALSE
    ELSE LET lmap == { SameKey(l[i]) : i \in DOMAIN l }
             mmap == { SameKey(l[i]) : i \in DOMAIN l }
         IN  /\ \A i \in DOMAIN l : SameKey(l[i]) \in mmap
             /\ \A i \in DOMAIN m : SameKey(m[i]) \in lmap

\* sameAddresses on the first fields of two names of a field list
sameAddressFields(F, fa, fb) ==
    sameAddresses(addressField(F, fa, 0) = 0, Addresses(F, fa),
                  addressField(F, fb, 0) = 0, Addresses(F, fb))

\* MimeField.removeParameter
removeParameter(ps, n) == SelectSeq(ps, LAMBDA x : x # n)

\* the else-branch of "if ct != nil": a Content-Type field is added without
\* looking at the default type
SimplifyAddsContentType_AnyDefault(ct, dt) == ct = 0

\* the else-branch of "if ct != nil" in Simplify: message/rfc822 is added
\* when there is no Content-Type field and that is the default type
SimplifyAddsContentType(ct, dt) == ct = 0 /\ dt = MessageRFC822ContentType

\* RemoveAllNamed(n) when cond holds
DropIf(h, cond, n) == IF cond THEN hRemoveAllNamed(h, n) ELSE h

\* the locals of Simplify next to the header: cde, cte, cdi and ct are
\* followed as nil flags
SimplifyLocals(h) ==
    [h |-> h, cdeNil |-> TRUE, cteNil |-> TRUE, cdiNil |-> TRUE, ctNil |-> TRUE]

\* cde: an empty Content-Description is removed
SimplifyContentDescription(s) ==
    LET cde == field(s.h.Fields, ContentDescriptionFieldName, 0)
        drop == cde # 0 /\ s.h.Fields[cde].value = ""
    IN  [s EXCEPT !.h = DropIf(@, drop, ContentDescriptionFieldName),
                  !.cdeNil = cde = 0 \/ drop]

\* cte: a binary Content-Transfer-Encoding is removed; cte keeps pointing at
\* the field that RemoveAllNamed has just taken out of the list
SimplifyContentTransferEncoding(s) ==
    LET cte == field(s.h.Fields, ContentTransferEncodingFieldName, 0)
    IN  [s EXCEPT !.h = DropIf(@, cte # 0 /\ s.h.Fields[cte].Encoding = BinaryEncoding,
                               ContentTransferEncodingFieldName),
                  !.cteNil = cte = 0]

\* cdi: a bare "inline" disposition of a text message is removed
SimplifyContentDisposition(s, m) ==
    LET cdi == field(s.h.Fields, ContentDispositionFieldName, 0)
        ct == field(s.h.Fields, ContentTypeFieldName, 0)
        drop == /\ cdi # 0
                /\ m = RFC5322Header
                /\ (ct = 0 \/ s.h.Fields[ct].Type = "text")
                /\ s.h.Fields[cdi].Disposition = "inline"
                /\ Len(s.h.Fields[cdi].Parameters) = 0
    IN  [s EXCEPT !.h = DropIf(@, drop, ContentDispositionFieldName),
                  !.cdiNil = cdi = 0 \/ drop]

\* ct: a redundant text/plain is removed, a message/rfc822 default is added
SimplifyContentType(s, dt) ==
    LET ct == field(s.h.Fields, ContentTypeFieldName, 0)
        drop == /\ ct # 0
                /\ Len(s.h.Fields[ct].Parameters) = 0
                /\ s.cteNil /\ s.cdiNil /\ s.cdeNil
                /\ dt = TextPlainContentType
                /\ s.h.Fields[ct].Type = "text" /\ s.h.Fields[ct].Subtype = "plain"
        add == SimplifyAddsContentType(ct, dt)
    IN  [s EXCEPT !.h = IF drop THEN hRemoveAllNamed(@, ContentTypeFieldName)
                        ELSE IF add
                             THEN addField(@, NewContentType("message", "rfc822", <<>>, FALSE))
                             ELSE @,
                  !.ctNil = IF ct # 0 THEN drop ELSE ~add]

\* Mime-Version: removed in a MIME header and where nothing needs it, added
\* to an RFC 5322 header that lacks it
SimplifyMimeVersion(s, m) ==
    IF m = MIMEHeader THEN hRemoveAllNamed(s.h, MIMEVersionFieldName)
    ELSE IF /\ s.ctNil /\ s.cteNil /\ s.cdeNil /\ s.cdiNil
            /\ field(s.h.Fields, ContentLocationFieldName, 0) = 0
            /\ field(s.h.Fields, ContentBaseFieldName, 0) = 0
         THEN hRemoveAllNamed(s.h, MIMEVersionFieldName)
         ELSE IF m = RFC5322Header /\ field(s.h.Fields, MIMEVersionFieldName, 0) = 0
              THEN addField(s.h, TextField(MIMEVersionFieldName, "1.0", FALSE))
              ELSE s.h

\* charset is dropped from the types that have no use for it
SimplifyCharset(h, ctNil) ==
    LET ct == field(h.Fields, ContentTypeFieldName, 0)
    IN  IF ~ctNil /\ h.Fields[ct].Type \in {"multipart", "message", "image", "audio", "video"}
        THEN [h EXCEPT !.Fields[ct].Parameters = removeParameter(@, "charset")]
        ELSE h

\* Errors-To that repeats Return-Path is removed
SimplifyErrorsTo(h) ==
    LET et == field(h.Fields, ErrorsToFieldName, 0)
        rp == Addresses(h.Fields, ReturnPathFieldName)
    IN  DropIf(h, /\ et # 0
                  /\ Len(rp) = 1
                  /\ lpdomain([rp[1] EXCEPT !.Localpart = ToLower(@),
                                             !.Domain = ToLower(@)])
                       = ToLower(h.Fields[et].value),
               ErrorsToFieldName)

\* an empty Message-Id is removed
SimplifyMessageID(h) ==
    LET mid == field(h.Fields, MessageIDFieldName, 0)
    IN  DropIf(h, mid # 0 /\ h.Fields[mid].Addresses = <<>>, MessageIDFieldName)

\* fb is removed when it holds the addresses of From
DropSame(h, fb) == DropIf(h, sameAddressFields(h.Fields, FromFieldName, fb), fb)

\* an address field without addresses is removed
DropEmpty(h, n) == DropIf(h, Len(Addresses(h.Fields, n)) = 0, n)

\* the tail of Simplify: Reply-To and Sender against From, then the empty
\* address fields
SimplifyAddressFields(h) ==
    DropEmpty(DropEmpty(DropEmpty(DropEmpty(DropEmpty(DropEmpty(
        DropSame(DropSame(h, ReplyToFieldName), SenderFieldName),
        SenderFieldName), ReturnPathFieldName), ToFieldName), CcFieldName),
        BccFieldName), ReplyToFieldName)

\* the locals after the Content-Type step
SimplifyMime(h, m, dt) ==
    SimplifyContentType(
        SimplifyContentDisposition(
            SimplifyContentTransferEncoding(
                SimplifyContentDescription(SimplifyLocals(h))), m), dt)

\* Mime-Version and charset, on the locals s
SimplifyVersion(s, m) == SimplifyCharset(SimplifyMimeVersion(s, m), s.ctNil)

\* Header.Simplify after its guard
SimplifyBody(h0, m, dt) ==
    SimplifyAddressFields(SimplifyMessageID(SimplifyErrorsTo(
        SimplifyVersion(SimplifyMime([h0 EXCEPT !.Fields = UniquifyFields(@)], m, dt), m))))

\* Header.Simplify
Simplify(h, m, dt) ==
    IF ~Valid(h, m) THEN verify(h, m) ELSE SimplifyBody(verify(h, m), m, dt)

(* ------------------------------- bytes --------------------------------- *)

\* A Go string is a sequence of bytes, and the code counts its bytes from 0.
\* A read s[i] with i >= len(s) and a slice s[a:b] with a > b or b > len(s)
\* end the call; the operators below test for that before they use At and
\* Slice.
CR == 13
LF == 10
HT == 9
SP == 32
Colon == 58
Dot == 46
Backslash == 92
CloseParen == 41
Hyphen == 45
UnitSeparator == 31

\* the UTF-8 byte order mark 0xEF 0xBB 0xBF
BOM == <<239, 187, 191>>

\* s[i]
At(s, i) == s[i + 1]
\* s[a:b]
Slice(s, a, b) == SubSeq(s, a + 1, b)

\* the value a call returns, or the runtime failure that ends it
Ok(v) == [failure |-> "none", val |-> v]
Panic(msg) == [failure |-> msg, val |-> <<>>]

\* strings.ToLower on ASCII bytes
LowerBytes(s) == [k \in DOMAIN s |-> IF s[k] \in 65..90 THEN s[k] + 32 ELSE s[k]]

\* strings.HasPrefix
HasPrefix(s, p) == Len(s) >= Len(p) /\ SubSeq(s, 1, Len(p)) = p

\* "From"
FromNameBytes == <<70, 114, 111, 109>>

\* "Date"
DateNameBytes == <<68, 97, 116, 101>>

\* "Subject"
SubjectNameBytes == <<83, 117, 98, 106, 101, 99, 116>>

\* "subject"
LowerSubjectNameBytes == <<115, 117, 98, 106, 101, 99, 116>>

\* "Content-Type"
ContentTypeNameBytes == <<67, 111, 110, 116, 101, 110, 116, 45, 84, 121, 112, 101>>

\* "X-A"
XNameBytes == <<88, 45, 65>>

\* "a@x.example"
AddressBytes == <<97, 64, 120, 46, 101, 120, 97, 109, 112, 108, 101>>

\* "Sat, 01 Jan 2000 00:00:00 +0000"
DateBytes == <<83, 97, 116, 44, 32, 48, 49, 32, 74, 97, 110, 32, 50, 48, 48, 48, 32, 48, 48, 58, 48, 48, 58, 48, 48, 32, 43, 48, 48, 48, 48>>

\* "yesterday"
BadDateBytes == <<121, 101, 115, 116, 101, 114, 100, 97, 121>>

\* "Hi"
HiBytes == <<72, 105>>

\* "text/plain"
TextPlainBytes == <<116, 101, 120, 116, 47, 112, 108, 97, 105, 110>>

\* "multipart/mixed; boundary=b"
MultipartMixedBytes == <<109, 117, 108, 116, 105, 112, 97, 114, 116, 47, 109, 105, 120, 101, 100, 59, 32, 98, 111, 117, 110, 100, 97, 114, 121, 61, 98>>

\* "from "
FromSpaceBytes == <<102, 114, 111, 109, 32>>

\* "x-"
XDashBytes == <<120, 45>>

\* "From abc"
EnvelopeBytes == <<70, 114, 111, 109, 32, 97, 98, 99>>

\* "b"
BoundaryBytes == <<98>>

\* "x"
BodyBytes == <<120>>

\* "p"
PreambleBytes == <<112>>

\* "Subj"
HalfNameBytes == <<83, 117, 98, 106>>

\* "Sub"
ShortNameBytes == <<83, 117, 98>>

(* ------------------------------ simplify ------------------------------- *)

\* c == 9 || c == 10 || c == 13 || c == 32
IsSpace(c) == c \in {HT, LF, CR, SP}

RECURSIVE simplifyFirst(_, _, _)
\* for i < len(str) && first == i: counts the leading whitespace
simplifyFirst(str, i, first) ==
    IF i < Len(str) /\ first = i
    THEN simplifyFirst(str, i + 1, IF IsSpace(At(str, i)) THEN first + 1 ELSE first)
    ELSE [i |-> i, first |-> first]

RECURSIVE simplifyScan(_, _, _, _, _)
\* for identity && i < len(str): the last non-whitespace byte, and whether
\* a run of two or more whitespace bytes lies inside the string
simplifyScan(str, i, last, spaces, identity) ==
    IF identity /\ i < Len(str)
    THEN IF IsSpace(At(str, i))
         THEN simplifyScan(str, i + 1, last, spaces + 1, identity)
         ELSE simplifyScan(str, i + 1, i, 0, IF spaces > 1 THEN FALSE ELSE identity)
    ELSE [last |-> last, identity |-> identity]

RECURSIVE simplifyBuild(_, _, _, _)
\* the copying loop: each inner run of whitespace becomes one space
simplifyBuild(str, i, spaces, result) ==
    IF i < Len(str)
    THEN IF IsSpace(At(str, i))
         THEN simplifyBuild(str, i + 1, spaces + 1, result)
         ELSE simplifyBuild(str, i + 1, 0,
                  IF spaces > 0 /\ Len(result) > 0
                  THEN result \o <<SP, At(str, i)>>
                  ELSE Append(result, At(str, i)))
    ELSE result

\* return str[first : last+1], or the copy
simplifyReturn(str, first, scan) ==
    IF scan.identity
    THEN IF scan.last + 1 > Len(str)
         THEN Panic("slice bounds out of range")
         ELSE Ok(Slice(str, first, scan.last + 1))
    ELSE Ok(simplifyBuild(str, 0, 0, <<>>))

\* the second loop starts where the first one stopped
simplifyAfterFirst(str, f) ==
    simplifyReturn(str, f.first, simplifyScan(str, f.i, f.first, 0, TRUE))

\* simplify(str)
simplify(str) ==
    IF str = <<>> THEN Ok(<<>>) ELSE simplifyAfterFirst(str, simplifyFirst(str, 0, 0))

(* ----------------------------- headerCase ------------------------------ *)

IsAlnum(c) == c \in 65..90 \/ c \in 97..122 \/ c \in 48..57

\* the byte headerCase writes for c; u is true after a byte that is neither
\* a letter nor a digit, and at the start
HeaderCaseByte(c, u) ==
    IF u /\ c \in 97..122 THEN c - 32
    ELSE IF ~u /\ c \in 65..90 THEN c + 32
    ELSE c

RECURSIVE headerCaseFrom(_, _, _)
headerCaseFrom(str, i, u) ==
    IF i >= Len(str) THEN <<>>
    ELSE <<HeaderCaseByte(At(str, i), u)>>
           \o headerCaseFrom(str, i + 1, ~IsAlnum(At(str, i)))

\* headerCase(str)
headerCase(str) == headerCaseFrom(str, 0, TRUE)

(* ------------------------------- Parser -------------------------------- *)
(* The cursor of a Parser over the bytes str: the position at and the last *)
(* comment lc.  mark and restore put the position and the error back; lc   *)
(* stays as the last Comment left it.                                      *)

OpenParen == 40

\* isAtext(c)
isAtext(c) ==
    /\ c \in 32..127
    /\ \/ IsAlnum(c)
       \/ c \in {33, 35, 36, 37, 38, 39, 42, 43, 45, 47, 61, 63, 94, 95, 96,
                 123, 124, 125, 126}

\* Parser.NextChar with the cursor at the position at
NextChar(str, at) == IF at >= Len(str) THEN 0 ELSE At(str, at)

RECURSIVE Whitespace(_, _)
\* Parser.Whitespace: the position the cursor is moved to
Whitespace(str, at) ==
    IF NextChar(str, at) \in {SP, HT, LF, CR, 160} THEN Whitespace(str, at + 1)
    ELSE at

\* switch c { ... }; p.Step(1) in Comment, for the byte c at the cursor
CommentByte(str, k, c) ==
    IF c = OpenParen
    THEN [at |-> k.at + 1, commentLevel |-> k.commentLevel + 1,
          buf |-> Append(k.buf, c)]
    ELSE IF c = CloseParen
    THEN [at |-> k.at + 1, commentLevel |-> k.commentLevel - 1,
          buf |-> IF k.commentLevel - 1 > 0 THEN Append(k.buf, c) ELSE k.buf]
    ELSE IF c = Backslash
    THEN [at |-> k.at + 2, commentLevel |-> k.commentLevel,
          buf |-> Append(k.buf, NextChar(str, k.at + 1))]
    ELSE [at |-> k.at + 1, commentLevel |-> k.commentLevel,
          buf |-> Append(k.buf, c)]

RECURSIVE CommentBytes(_, _)
\* for commentLevel > 0 && !p.AtEnd()
CommentBytes(str, k) ==
    IF k.commentLevel > 0 /\ k.at < Len(str)
    THEN CommentBytes(str, CommentByte(str, k, At(str, k.at)))
    ELSE k

RECURSIVE CommentLoop(_, _, _)
RECURSIVE CommentNext(_, _)
\* for p.Present("(") of Comment
CommentLoop(str, at, lc) ==
    IF NextChar(str, at) = OpenParen
    THEN CommentNext(str, CommentBytes(str, [at |-> at + 1, commentLevel |-> 1,
                                             buf |-> <<>>]))
    ELSE [at |-> at, lc |-> lc]

\* p.Whitespace(); p.lc = buf.String()
CommentNext(str, k) == CommentLoop(str, Whitespace(str, k.at), k.buf)

\* Parser.Comment: the position after comments and white space, and p.lc
Comment(str, at, lc) == CommentLoop(str, Whitespace(str, at), lc)

RECURSIVE AtomEnd(_, _)
\* for !p.AtEnd() && isAtext(p.NextChar())
AtomEnd(str, at) ==
    IF at < Len(str) /\ isAtext(At(str, at)) THEN AtomEnd(str, at + 1) ELSE at

\* the atom between the cursor c and the position e
AtomText(str, c, e) == [r |-> Slice(str, c.at, e), at |-> e, lc |-> c.lc]

\* Parser.Atom with the cursor c
AtomAt(str, c) == AtomText(str, Comment(str, c.at, c.lc),
                           AtomEnd(str, Comment(str, c.at, c.lc).at))

\* Parser.Atom
Atom(str, at, lc) == AtomAt(str, [at |-> at, lc |-> lc])

RECURSIVE DotAtomLoop(_, _)
\* if p.Valid() { result += "." + a } else { p.restore(m); done = true }:
\* the parser is valid when the dot was there and the atom a is not empty
DotAtomTurn(str, d, dot, a) ==
    IF dot /\ a.r # <<>>
    THEN DotAtomLoop(str, [r |-> d.r \o <<Dot>> \o a.r, at |-> a.at, lc |-> a.lc])
    ELSE [r |-> d.r, at |-> d.at, lc |-> a.lc]

\* p.require("."); p.Comment(); a := p.Atom()
DotAtomRequire(str, d, c) ==
    DotAtomTurn(str, d, NextChar(str, c.at) = Dot,
                AtomAt(str, Comment(str, IF NextChar(str, c.at) = Dot
                                         THEN c.at + 1 ELSE c.at, c.lc)))

\* m := p.mark(); p.Comment()
DotAtomLoop(str, d) == DotAtomRequire(str, d, Comment(str, d.at, d.lc))

\* Parser.DotAtom
DotAtom(str, at, lc) ==
    IF Atom(str, at, lc).r = <<>> THEN Atom(str, at, lc)
    ELSE DotAtomLoop(str, Atom(str, at, lc))

(* ---------------------------- parseMimeVersion -------------------------- *)

MimeVersionNameBytes == <<77, 105, 109, 101, 45, 86, 101, 114, 115, 105, 111, 110>>

\* "1.0"
OneZeroBytes == <<49, 46, 48>>

\* "Note: Original mime-version had syntax problems"
NoteBytes ==
    <<78, 111, 116, 101, 58, 32, 79, 114, 105, 103, 105, 110, 97, 108, 32, 109, 105, 109, 101, 45, 118, 101, 114, 115, 105, 111, 110, 32, 104, 97, 100, 32, 115, 121, 110, 116, 97, 120, 32, 112, 114, 111, 98, 108, 101, 109, 115>>

\* the comment c that parseMimeVersion puts behind 1.0: v is the dot-atom
\* read and k the cursor after the Comment that follows it.  decode(p.lc,
\* "us-ascii") gives ASCII bytes back as they are.
MimeVersionComment(str, v, k) ==
    IF v.r # OneZeroBytes \/ k.at < Len(str) THEN NoteBytes
    ELSE IF \E j \in DOMAIN k.lc : k.lc[j] \in {OpenParen, CloseParen, Backslash}
         THEN <<>>
         ELSE k.lc

\* result := "1.0"; if c != "" { result += "(" + c + ")" }
MimeVersionResult(c) ==
    OneZeroBytes \o (IF c # <<>> THEN <<OpenParen>> \o c \o <<CloseParen>> ELSE <<>>)

\* v := p.DotAtom(); p.Comment()
MimeVersionAfter(str, v) ==
    MimeVersionResult(MimeVersionComment(str, v, Comment(str, v.at, v.lc)))

\* HeaderField.parseMimeVersion(s): the value the field is given
parseMimeVersion(s) ==
    MimeVersionAfter(s, DotAtom(s, Comment(s, 0, <<>>).at, Comment(s, 0, <<>>).lc))

(* --------------------------- NewHeaderField ---------------------------- *)

\* NewHeaderFieldNamed(name) followed by Parse(value), for the names (in
\* header case) and values of the field lines this model reads:
\*   From: a@x.example                       Date: yesterday
\*   Date: Sat, 01 Jan 2000 00:00:00 +0000   Subject: Hi
\*   Content-Type: text/plain                X-A:
\*   Content-Type: multipart/mixed; boundary=b
FieldTable ==
    { <<FromNameBytes, AddressBytes, NewAddressField(FromFieldName, <<AddrA>>, FALSE)>>,
      <<DateNameBytes, DateBytes,
        TextField(DateFieldName, "Sat, 01 Jan 2000 00:00:00 +0000", FALSE)>>,
      <<DateNameBytes, BadDateBytes, TextField(DateFieldName, "", TRUE)>>,
      <<SubjectNameBytes, HiBytes, TextField(SubjectFieldName, "Hi", FALSE)>>,
      <<ContentTypeNameBytes, TextPlainBytes, NewContentType("text", "plain", <<>>, FALSE)>>,
      <<ContentTypeNameBytes, MultipartMixedBytes,
        NewContentType("multipart", "mixed", <<"boundary">>, FALSE)>>,
      <<XNameBytes, <<>>, TextField("X-A", "", FALSE)>> }

\* Parse(value) of the fields that are not among the lines above: a
\* Mime-Version field, whose value is kept as bytes, and a Date field of the
\* empty value, which no layout of dateLayouts matches
ParseValue(n, value) ==
    CASE n = MimeVersionNameBytes ->
             TextField(MIMEVersionFieldName, parseMimeVersion(value), FALSE)
      [] n = DateNameBytes /\ value = <<>> -> TextField(DateFieldName, "", TRUE)

\* the field that NewHeaderFieldNamed(n) makes of value
ParseField(n, value) ==
    IF \E t \in FieldTable : t[1] = n /\ t[2] = value
    THEN (CHOOSE t \in FieldTable : t[1] = n /\ t[2] = value)[3]
    ELSE ParseValue(n, value)

RECURSIVE SkipColons(_, _)
\* for value[i] == ':' || value[i] == ' ' { i++ }; -1 for a read past the end
SkipColons(value, i) ==
    IF i >= Len(value) THEN -1
    ELSE IF At(value, i) \in {Colon, SP} THEN SkipColons(value, i + 1)
    ELSE i

\* the second attempt of NewHeaderField, on value[i:]
NewHeaderFieldSuffix(n, value, i) ==
    IF i < 0 THEN Panic("index out of range")
    ELSE IF FieldValid(ParseField(n, Slice(value, i, Len(value))))
         THEN Ok(ParseField(n, Slice(value, i, Len(value))))
         ELSE Ok(ParseField(n, value))

\* NewHeaderField(name, value)
NewHeaderField(name, value) ==
    IF FieldValid(ParseField(headerCase(name), value))
    THEN Ok(ParseField(headerCase(name), value))
    ELSE NewHeaderFieldSuffix(headerCase(name), value, SkipColons(value, 0))

\* the header after addField(f), unless making f has failed
AddParsed(h, f) ==
    IF f.failure # "none" THEN [h |-> h, failure |-> f.failure]
    ELSE [h |-> addField(h, f.val), failure |-> "none"]

\* Header.Add(key, value)
Add(h, key, value) == AddParsed(h, NewHeaderField(key, value))

(* ----------------------------- ReadHeader ------------------------------ *)

\* what ReadHeader leaves: the header, numBytes, and the failure that ended
\* the call, if any
Read(h, n) == [h |-> h, numBytes |-> n, failure |-> "none"]
ReadFails(h, msg) == [h |-> h, numBytes |-> 0, failure |-> msg]

\* if i+2 < end && the three bytes at i are the byte order mark { i += 3 }
SkipBOM(s, i) ==
    IF i + 2 < Len(s) /\ Slice(s, i, i + 3) = BOM THEN i + 3 ELSE i

RECURSIVE ScanName(_, _)
\* for j < end && rfc5322[j] >= 33 && rfc5322[j] <= 127 && rfc5322[j] != ':'
ScanName(s, j) ==
    IF j < Len(s) /\ At(s, j) >= 33 /\ At(s, j) <= 127 /\ At(s, j) # Colon
    THEN ScanName(s, j + 1)
    ELSE j

RECURSIVE ScanLine(_, _)
\* for i < end && rfc5322[i] != '\r' && rfc5322[i] != '\n' { i++ }
ScanLine(s, i) ==
    IF i < Len(s) /\ At(s, i) # CR /\ At(s, i) # LF THEN ScanLine(s, i + 1) ELSE i

RECURSIVE SkipCRs(_, _)
\* for rfc5322[i] == '\r' { i++ }; -1 for a read past the end
SkipCRs(s, i) ==
    IF i >= Len(s) THEN -1
    ELSE IF At(s, i) = CR THEN SkipCRs(s, i + 1)
    ELSE i

\* if rfc5322[i] == '\n' { i++ }; -1 for a read past the end
SkipLF(s, i) ==
    IF i < 0 \/ i >= Len(s) THEN -1
    ELSE IF At(s, i) = LF THEN i + 1
    ELSE i

RECURSIVE SkipBlanks(_, _)
\* for rfc5322[i] == ' ' || rfc5322[i] == '\t' { i++ }; -1 for a read past
\* the end
SkipBlanks(s, i) ==
    IF i >= Len(s) THEN -1
    ELSE IF At(s, i) \in {SP, HT} THEN SkipBlanks(s, i + 1)
    ELSE i

RECURSIVE ScanValue(_, _)
\* the end of the value: the first '\n' that no space or tab follows
ScanValue(s, j) ==
    IF j < Len(s) /\ (At(s, j) # LF \/ (j + 1 < Len(s) /\ At(s, j + 1) \in {SP, HT}))
    THEN ScanValue(s, j + 1)
    ELSE j

\* if j > 0 && rfc5322[j-1] == '\r' { j-- }
TrimCR(s, j) == IF j > 0 /\ At(s, j - 1) = CR THEN j - 1 ELSE j

\* i = j, then past the line end: i++ once more when "\r\n" lies at i
NextLine(s, i) ==
    IF i + 1 < Len(s) /\ At(s, i) = CR /\ At(s, i + 1) = LF THEN i + 2 ELSE i + 1

\* after the loop: the line end that closes the header is taken, too
Chomp(s, i) ==
    IF i + 1 < Len(s) /\ At(s, i) = CR /\ At(s, i + 1) = LF THEN i + 2
    ELSE IF i < Len(s) /\ At(s, i) = LF THEN i + 1
    ELSE i

RECURSIVE ReadHeaderLoop(_, _, _, _)
RECURSIVE ReadHeaderAt(_, _, _, _, _)

\* after the "From " line has been skipped up to i
ReadEnvelope(s, m, i, h) ==
    IF i < 0 THEN ReadFails(h, "index out of range")
    ELSE ReadHeaderLoop(s, m, i, h)

\* after h.Add: on to the next line, which starts after j
ReadNext(s, m, j, added) ==
    IF added.failure # "none" THEN ReadFails(added.h, added.failure)
    ELSE ReadHeaderLoop(s, m, NextLine(s, j), added.h)

\* if simplify(value) != "" || strings.HasPrefix(strings.ToLower(name), "x-")
ReadAdd(s, m, name, value, j, simplified, h) ==
    IF simplified.failure # "none" THEN ReadFails(h, simplified.failure)
    ELSE IF simplified.val # <<>> \/ HasPrefix(LowerBytes(name), XDashBytes)
         THEN ReadNext(s, m, j, Add(h, name, value))
         ELSE ReadNext(s, m, j, [h |-> h, failure |-> "none"])

\* value := rfc5322[i:j]
ReadValue(s, m, name, i, j, h) ==
    IF j < i THEN ReadFails(h, "slice bounds out of range")
    ELSE ReadAdd(s, m, name, Slice(s, i, j), j, simplify(Slice(s, i, j)), h)

\* the field whose name is rfc5322[i:j]; v is where its value starts
ReadField(s, m, i, j, v, h) ==
    IF v < 0 THEN ReadFails(h, "index out of range")
    ELSE ReadValue(s, m, Slice(s, i, j), v, TrimCR(s, ScanValue(s, v)), h)

\* one turn of the loop, with j where the name scan from i has stopped
ReadHeaderAt(s, m, i, j, h) ==
    IF j = i + 4 /\ m = RFC5322Header /\ j + 1 > Len(s)
    THEN ReadFails(h, "slice bounds out of range")
    ELSE IF j = i + 4 /\ m = RFC5322Header
            /\ LowerBytes(Slice(s, i, j + 1)) = FromSpaceBytes
         THEN ReadEnvelope(s, m, SkipLF(s, SkipCRs(s, ScanLine(s, i))), h)
         ELSE IF j > i /\ j >= Len(s)
              THEN ReadFails(h, "index out of range")
              ELSE IF j > i /\ At(s, j) = Colon
                   THEN ReadField(s, m, i, j, SkipBlanks(s, j + 1), h)
                   ELSE Read(h, Chomp(s, i))

\* for !done { ... }
ReadHeaderLoop(s, m, i, h) ==
    ReadHeaderAt(s, m, SkipBOM(s, i), ScanName(s, SkipBOM(s, i)), h)

\* ReadHeader(rfc5322, m)
ReadHeader(s, m) == ReadHeaderLoop(s, m, 0, Hdr(<<>>, <<>>, FALSE))

(* ---------------------------- parseMultipart --------------------------- *)

\* Part.parseBodypart, as far as its first reads (start := 0; if
\* rfc5322[start] == 13 { start++ }; if rfc5322[start] == 10 { start++ }):
\* the failure they end in, or "none".  What the call does to the body and
\* to the header after these reads is not followed.
parseBodypart(s) ==
    IF Len(s) = 0 THEN "index out of range"
    ELSE IF At(s, 0) = CR /\ Len(s) = 1 THEN "index out of range"
    ELSE "none"

\* NewAddress gives an address with a domain the type NormalAddressType
NormalAddress(a) == a.Domain # ""

\* the Date field that h.Add(DateFieldName, date.Format(time.RFC822Z)) adds
\* for date = time.Now(): "02 Jan 06 15:04 -0700" is one of dateLayouts, so
\* the field is valid; the reading of the clock is not followed
DateNow == TextField(DateFieldName, "time.Now()", FALSE)

\* the text of a Received field that ends in "; " and a date, and the
\* canonical text of that date
ReceivedText == "by x.example; Sun, 02 Jan 2000 00:00:00 +0000"
ReceivedDateText == "Sun, 02 Jan 2000 00:00:00 +0000"

\* parseDate(v[i+1:]) for the text v of a Received field, behind its last
\* ';': the date, "" for nil.  parseDate is not among the sources at hand;
\* it is taken to read the date that follows the ';'.
parseDate(v) == IF v = ReceivedText THEN ReceivedDateText ELSE ""

\* the date the loop over the Received fields ends with, "" for nil; the
\* fields of this model that carry a date carry the same one
ReceivedDate(F) ==
    IF \E k \in DOMAIN F : F[k].name = ReceivedFieldName /\ parseDate(F[k].value) # ""
    THEN ReceivedDateText
    ELSE ""

\* hf.Date of a DateField, which the sources at hand do not declare: the
\* time a valid field was parsed to, "" (nil) for an invalid one
DateOf(f) == IF FieldValid(f) THEN f.value ELSE ""

\* Header.Date() of a header with a Date field
HeaderDate(F) == DateOf(F[field(F, DateFieldName, 0)])

\* h.mode == RFC5322Header && (occurrences[DateFieldName] == 0 ||
\* !h.field(DateFieldName, 0).Valid() || h.Date() != nil)
DateWanted(h, F0, m) ==
    /\ m = RFC5322Header
    /\ \/ Occurrences(F0, DateFieldName) = 0
       \/ ~FieldValid(h.Fields[field(h.Fields, DateFieldName, 0)])
       \/ HeaderDate(h.Fields) # ""

\* RepairWithBody, the search for a date for a part without parent: the
\* date of a Received field is added as a Date field; without one the
\* current time is added, and only where there is no Date field
RescueDate(h, F0, m) ==
    IF DateWanted(h, F0, m)
    THEN IF ReceivedDate(h.Fields) # ""
         THEN addField(h, TextField(DateFieldName, ReceivedDate(h.Fields), FALSE))
         ELSE IF Occurrences(F0, DateFieldName) = 0 THEN addField(h, DateNow)
              ELSE h
    ELSE h

\* the fields the loop over head and parent asks for addresses, in order
RescueNames == <<FromFieldName, ReturnPathFieldName, SenderFieldName>>

RECURSIVE RescueFromList(_, _)
\* the address list a that the loop ends with for a part without parent:
\* the list of the first of the three fields whose first address is a
\* normal one, the empty list when there is none
RescueFromList(F, k) ==
    IF k > Len(RescueNames) THEN <<>>
    ELSE IF Len(Addresses(F, RescueNames[k])) > 0
            /\ NormalAddress(Addresses(F, RescueNames[k])[1])
         THEN Addresses(F, RescueNames[k])
         ELSE RescueFromList(F, k + 1)

\* a From field with the single address a
FromOf(a) == NewAddressField(FromFieldName, <<a>>, FALSE)

\* RepairWithBody, "If there is no From field, try to use either
\* Return-Path or Sender": h.Add(FromFieldName, a[0].toString(false))
RescueFrom(h, F0, m) ==
    IF m = RFC5322Header /\ Occurrences(F0, FromFieldName) = 0
       /\ Len(RescueFromList(h.Fields, 1)) > 0
    THEN addField(h, FromOf(RescueFromList(h.Fields, 1)[1]))
    ELSE h

\* NewAddress(n, "invalid", "invalid.invalid") for the empty display name
\* that a header without From field gives
InvalidAddress == Addr("", "invalid", "invalid.invalid")

\* RepairWithBody, "If we have NO From field, or one which contains only
\* <>, use invalid@invalid.invalid", for a header whose From fields are
\* valid: the field is built and added where there is none
RescueInvalidFrom(h, m) ==
    IF m = RFC5322Header /\ field(h.Fields, FromFieldName, 0) = 0
    THEN addField(h, FromOf(InvalidAddress))
    ELSE h

\* RepairWithBody, "If c-t-e is bad, we try to detect": with no body lines
\* to look at, a second or an invalid field has all of them removed
RescueCTE(h, F0) ==
    IF /\ Occurrences(F0, ContentTransferEncodingFieldName) > 0
       /\ field(h.Fields, ContentTransferEncodingFieldName, 0) # 0
       /\ \/ field(h.Fields, ContentTransferEncodingFieldName, 1) # 0
          \/ ~FieldValid(h.Fields[field(h.Fields, ContentTransferEncodingFieldName, 0)])
    THEN hRemoveAllNamed(h, ContentTransferEncodingFieldName)
    ELSE h

\* RepairWithBody, "If there is an unacceptable Received field somewhere,
\* remove it and all the older Received fields": h.Valid() is asked at the
\* first Received field and RemoveAt leaves its answer cached, so that
\* every Received field is removed when the header is not valid
RescueReceived(h, F0, m) ==
    IF Occurrences(F0, ReceivedFieldName) > 0
       /\ field(h.Fields, ReceivedFieldName, 0) # 0
    THEN IF Valid(h, m) THEN verify(h, m)
         ELSE [verify(h, m) EXCEPT
                  !.Fields = SelectSeq(h.Fields, LAMBDA f : f.name # ReceivedFieldName)]
    ELSE h

\* the passes of RepairWithBody after the removal of duplicates, on the
\* header of a part without parent and with an empty body, ending in
\* h.verified = false.  F0 is the field list the occurrences were counted
\* on.  The passes between them act on Return-Receipt-To,
\* Disposition-Notification-To, X-From-Line, Content-Location, Content-Id
\* and Message-Id fields, on several Sender, Subject or Content-Type fields,
\* on an invalid From or Content-Type field and on a Sender with several
\* addresses, and are not followed.
RescuePasses(h, F0, m) ==
    [ RescueCTE(
          RescueInvalidFrom(
              RescueReceived(RescueFrom(RescueDate(h, F0, m), F0, m), F0, m), m), F0)
        EXCEPT !.verified = FALSE ]

\* Header.RepairWithBody(p, body) for a part p without parent and the body ""
RepairWithBody(h, m) ==
    IF Valid(h, m) THEN verify(h, m)
    ELSE RescuePasses([verify(h, m) EXCEPT
                          !.Fields = RepairDuplicates(h.Fields, h.Fields, m, 1)],
                      h.Fields, m)

\* MimeField.parameter(n), for the parameter values of FieldTable
parameter(f, n) ==
    IF n = "boundary" /\ \E k \in DOMAIN f.Parameters : f.Parameters[k] = n
    THEN BoundaryBytes
    ELSE <<>>

\* the locals of parseMultipart, p.Parts, and the failure that ended the
\* call, if any
MultipartStart ==
    [i |-> 0, start |-> 0, last |-> FALSE, pn |-> 1, Parts |-> <<>>, failure |-> "none"]

MultipartFails(st, msg) == [st EXCEPT !.failure = msg]

\* the test for a delimiter line at i < end: "yes", "no", or the failure of
\* one of its reads
DelimiterAt(s, i, divider) ==
    IF At(s, i) # Hyphen THEN "no"
    ELSE IF i + 1 >= Len(s) THEN "index out of range"
    ELSE IF At(s, i + 1) # Hyphen THEN "no"
    ELSE IF ~(i = 0 \/ At(s, i - 1) = UnitSeparator \/ At(s, i - 1) = LF) THEN "no"
    ELSE IF i + 2 >= Len(s) \/ divider = <<>> THEN "index out of range"
    ELSE IF At(s, i + 2) # At(divider, 0) THEN "no"
    ELSE IF i + 2 + Len(divider) > Len(s) THEN "slice bounds out of range"
    ELSE IF Slice(s, i + 2, i + 2 + Len(divider)) = divider THEN "yes"
    ELSE "no"

\* j and l behind the divider at j: "--" there makes it the last delimiter
AfterDivider(s, j) ==
    IF j >= Len(s) THEN [j |-> j, l |-> FALSE, failure |-> "index out of range"]
    ELSE IF At(s, j) # Hyphen THEN [j |-> j, l |-> FALSE, failure |-> "none"]
    ELSE IF j + 1 >= Len(s) THEN [j |-> j, l |-> FALSE, failure |-> "index out of range"]
    ELSE IF At(s, j + 1) = Hyphen THEN [j |-> j + 2, l |-> TRUE, failure |-> "none"]
    ELSE [j |-> j, l |-> FALSE, failure |-> "none"]

\* if i >= end { l = true } else { j = i + 2 + len(divider) ... }
DelimiterEnd(s, i, divider) ==
    IF i >= Len(s) THEN [j |-> i, l |-> TRUE, failure |-> "none"]
    ELSE AfterDivider(s, i + 2 + Len(divider))

\* if j < len(rfc5322) && rfc5322[j] == c { j++ }
SkipOne(s, j, c) == IF j < Len(s) /\ At(s, j) = c THEN j + 1 ELSE j

\* Strip the [CR]LF that belongs to the boundary; -1 for a read before the
\* start
StripLineEnd(s, i) ==
    IF At(s, i - 1) # LF THEN i
    ELSE IF i - 1 = 0 THEN -1
    ELSE IF At(s, i - 2) = CR THEN i - 2
    ELSE i - 1

\* the Part that parseMultipart appends: its number, the bytes
\* rfc5322[start:end] handed to parseBodypart, and the DefaultType of its
\* header
NewPart(pn, start, end, digest) ==
    [Number |-> pn, start |-> start, end |-> end,
     DefaultType |-> IF digest THEN MessageRFC822ContentType ELSE TextPlainContentType]

\* the append without pn++: every Part gets the number 1
PartBody_NoIncrement(s, digest, st, start, i) ==
    IF i < 0 THEN MultipartFails(st, "index out of range")
    ELSE IF start > i THEN MultipartFails(st, "slice bounds out of range")
    ELSE IF parseBodypart(Slice(s, start, i)) # "none"
         THEN MultipartFails(st, parseBodypart(Slice(s, start, i)))
         ELSE [st EXCEPT !.Parts = Append(@, NewPart(st.pn, start, i, digest))]

\* bp := p.parseBodypart(rfc5322[start:i], h) and the append
PartBody(s, digest, st, start, i) ==
    IF i < 0 THEN MultipartFails(st, "index out of range")
    ELSE IF start > i THEN MultipartFails(st, "slice bounds out of range")
    ELSE IF parseBodypart(Slice(s, start, i)) # "none"
         THEN MultipartFails(st, parseBodypart(Slice(s, start, i)))
         ELSE [st EXCEPT !.Parts = Append(@, NewPart(st.pn, start, i, digest)),
                         !.pn = @ + 1]

\* h.Repair() on the header of the part, then the body
PartRepaired(s, digest, st, start, repaired) ==
    IF repaired.failure # "none" THEN MultipartFails(st, repaired.failure)
    ELSE PartBody(s, digest, st, start, StripLineEnd(s, st.i))

\* h, _ := ReadHeader(rfc5322[start:j], MimeHeader); start += h.numBytes
PartHeader(s, digest, st, read) ==
    IF read.failure # "none" THEN MultipartFails(st, read.failure)
    ELSE PartRepaired(s, digest, st, st.start + read.numBytes,
                      Repair(read.h, MIMEHeader))

\* last = l; start = j; i = j
DelimiterDone(st, l, j) ==
    IF st.failure # "none" THEN st
    ELSE [st EXCEPT !.last = l, !.start = j, !.i = j]

\* the delimiter line ends at j: the section before it becomes a Part
DelimiterAccepted(s, digest, st, l, j) ==
    IF st.start > 0
    THEN DelimiterDone(PartHeader(s, digest, st,
                                  ReadHeader(Slice(s, st.start, j), MIMEHeader)), l, j)
    ELSE DelimiterDone(st, l, j)

\* for rfc5322[j] == ' ' || rfc5322[j] == '\t' has left j; the line counts
\* as a delimiter when a line end follows
DelimiterLine(s, digest, st, l, j) ==
    IF j < 0 THEN MultipartFails(st, "index out of range")
    ELSE IF At(s, j) \in {CR, LF}
         THEN DelimiterAccepted(s, digest, st, l, SkipOne(s, SkipOne(s, j, CR), LF))
         ELSE st

Delimiter(s, digest, st, d) ==
    IF d.failure # "none" THEN MultipartFails(st, d.failure)
    ELSE DelimiterLine(s, digest, st, d.l, SkipBlanks(s, d.j))

\* the if-statement at the head of the loop body
MultipartTurn(s, divider, digest, st, found) ==
    IF found = "yes" THEN Delimiter(s, digest, st, DelimiterEnd(s, st.i, divider))
    ELSE IF found = "no" THEN st
    ELSE MultipartFails(st, found)

RECURSIVE SkipLineEnds(_, _)
\* for i < end && (rfc5322[i] == 13 || rfc5322[i] == 10) { i++ }
SkipLineEnds(s, i) ==
    IF i < Len(s) /\ At(s, i) \in {CR, LF} THEN SkipLineEnds(s, i + 1) ELSE i

\* the two loops at the end of the loop body: on to the next line
MultipartAdvance(s, st) ==
    IF st.failure # "none" THEN st
    ELSE [st EXCEPT !.i = SkipLineEnds(s, ScanLine(s, st.i))]

RECURSIVE parseMultipartLoop(_, _, _, _)
\* for !last && i <= end { ... }
parseMultipartLoop(s, divider, digest, st) ==
    IF st.failure # "none" \/ st.last \/ st.i > Len(s) THEN st
    ELSE parseMultipartLoop(s, divider, digest,
             MultipartAdvance(s,
                 MultipartTurn(s, divider, digest, st,
                     IF st.i >= Len(s) THEN "yes"
                     ELSE DelimiterAt(s, st.i, divider))))

\* Part.parseMultipart(rfc5322, divider, digest)
parseMultipart(s, divider, digest) ==
    parseMultipartLoop(s, divider, digest, MultipartStart)

(* -------------------------------- Parse -------------------------------- *)

\* what Message.Parse leaves: the header, the parts, and the failure that
\* ended the call, if any
Parsed(h, n, parts, msg) ==
    [h |-> h, numBytes |-> n, Parts |-> parts, failure |-> msg]

\* m.Header.Simplify() at the end; the header that ReadHeader has made has
\* the default type TextPlainContentType
ParseDone(h, n, mp) ==
    IF mp.failure # "none" THEN Parsed(h, n, mp.Parts, mp.failure)
    ELSE Parsed(Simplify(h, RFC5322Header, TextPlainContentType), n, mp.Parts, "none")

\* the branch on the Content-Type: a multipart is divided into its parts,
\* anything else is one bodypart.  A bodypart that parseBodypart reads on
\* after its first bytes is not followed.
ParseBody(s, n, h, ct) ==
    CASE ct # 0 /\ h.Fields[ct].Type = "multipart" ->
           ParseDone(h, n,
               parseMultipart(s, parameter(h.Fields[ct], "boundary"),
                              h.Fields[ct].Subtype = "digest"))
      [] ~(ct # 0 /\ h.Fields[ct].Type = "multipart")
           /\ parseBodypart(Slice(s, n, Len(s))) # "none" ->
           Parsed(h, n, <<>>, parseBodypart(Slice(s, n, Len(s))))

\* h.RepairWithBody(m.Part, rfc5322[h.numBytes:])
ParseRepaired(s, n, repaired) ==
    IF repaired.failure # "none" THEN Parsed(repaired.h, n, <<>>, repaired.failure)
    ELSE IF n > Len(s) THEN Parsed(repaired.h, n, <<>>, "slice bounds out of range")
    ELSE ParseBody(s, n, RepairWithBody(repaired.h, RFC5322Header),
                   field(RepairWithBody(repaired.h, RFC5322Header).Fields,
                         ContentTypeFieldName, 0))

\* h.Repair() on what ReadHeader has read
ParseRead(s, read) ==
    IF read.failure # "none" THEN Parsed(read.h, 0, <<>>, read.failure)
    ELSE ParseRepaired(s, read.numBytes, Repair(read.h, RFC5322Header))

\* Message.Parse(rfc5322)
Parse(s) == ParseRead(s, ReadHeader(s, RFC5322Header))

(* ------------------------------ BodyPart ------------------------------- *)

Zero == 48
Nine == 57

RECURSIVE DigitsValue(_)
\* the number a string of decimal digits stands for
DigitsValue(s) ==
    IF s = <<>> THEN 0
    ELSE 10 * DigitsValue(SubSeq(s, 1, Len(s) - 1)) + (s[Len(s)] - Zero)

\* strconv.Atoi on s[b:e], which BodyPart has scanned as decimal digits: -1
\* stands for the error on the empty string
Atoi(s) == IF s = <<>> THEN -1 ELSE DigitsValue(s)

RECURSIVE ScanDigits(_, _)
\* for e < len(s) && s[e] >= '0' && s[e] <= '9' { e++ }
ScanDigits(s, e) ==
    IF e < Len(s) /\ At(s, e) >= Zero /\ At(s, e) <= Nine THEN ScanDigits(s, e + 1) ELSE e

\* a Part as BodyPart sees it: id names the object a *Part points to,
\* Header is "parsed" (set by the parser), "none" (nil) or "empty" (the
\* &Header{} that BodyPart links in)
NewNode(id, n, hdr, parts) == [id |-> id, Number |-> n, Header |-> hdr, Parts |-> parts]

\* the values of bp: nil, a Part that is reached from m.Parts by the
\* (1-based) positions at, or a Part that no Parts list holds
NilPart == [kind |-> "nil", at |-> <<>>, id |-> 0]
Attached(at, id) == [kind |-> "attached", at |-> at, id |-> id]
Detached(id) == [kind |-> "detached", at |-> <<>>, id |-> id]

RECURSIVE NodeAt(_, _)
NodeAt(cs, at) ==
    IF Len(at) = 1 THEN cs[at[1]] ELSE NodeAt(cs[at[1]].Parts, Tail(at))

\* cs := m.Parts; if bp != nil { cs = bp.Parts }
Children(t, bp) ==
    IF bp.kind = "nil" THEN t
    ELSE IF bp.kind = "attached" THEN NodeAt(t, bp.at).Parts
    ELSE <<>>

RECURSIVE SetChildren(_, _, _)
\* the tree t after the array behind the Parts of the Part at at holds new
SetChildren(t, at, new) ==
    IF at = <<>> THEN new
    ELSE [t EXCEPT ![at[1]].Parts = SetChildren(@, Tail(at), new)]

RECURSIVE SetHeader(_, _, _)
\* c.Header = h for the Part at at
SetHeader(t, at, hdr) ==
    IF Len(at) = 1 THEN [t EXCEPT ![at[1]].Header = hdr]
    ELSE [t EXCEPT ![at[1]].Parts = SetHeader(@, Tail(at), hdr)]

RECURSIVE RangeStop(_, _, _)
\* the range loop without the >= of its test: it passes a child whose
\* Number equals n
RangeStop_Greater(cs, n, k) ==
    IF cs = <<>> THEN 0
    ELSE IF cs[k].Number > n \/ k = Len(cs) THEN k
    ELSE RangeStop(cs, n, k + 1)

\* for i, c = range cs { if c.Number >= n { break } }: the position (from 1)
\* of c when the loop is left, which is the last position when no child
\* breaks it, and 0 when cs is empty and c stays nil
RangeStop(cs, n, k) ==
    IF cs = <<>> THEN 0
    ELSE IF cs[k].Number >= n \/ k = Len(cs) THEN k
    ELSE RangeStop(cs, n, k + 1)

\* what the list of the parent holds after
\* cs = append(append(cs[:i], child), cs[i:]...): the inner append writes
\* child over cs[i] in the array the parent shares; the outer append moves
\* cs[i:] one place up in that array when it has spare capacity and copies
\* to a new array otherwise; the result is assigned to the local cs only, so
\* the parent keeps its length
Overwritten(cs, k, child, spare) ==
    IF spare
    THEN SubSeq(SubSeq(cs, 1, k - 1) \o <<child, child>> \o SubSeq(cs, k + 1, Len(cs)),
                1, Len(cs))
    ELSE [cs EXCEPT ![k] = child]

\* the locals of BodyPart: b, bp, the Parts under the Message, the id of the
\* next Part that is allocated, and whether the call has returned nil
BodyPartStart(t, next) ==
    [b |-> 0, bp |-> NilPart, tree |-> t, next |-> next, returned |-> FALSE]

\* return nil
ReturnNil(st) == [st EXCEPT !.bp = NilPart, !.returned = TRUE]

\* c.Number == n: the header of a first part without one is linked in (no
\* Part of the trees below has a message, so h stays &Header{}), and bp = c
Descend(st, n, cs, k) ==
    [st EXCEPT !.bp = Attached(st.bp.at \o <<k>>, cs[k].id),
               !.tree = IF n = 1 /\ cs[k].Header = "none"
                        THEN SetHeader(@, st.bp.at \o <<k>>, "empty")
                        ELSE @]

\* child := &Part{Number: n, parent: ...}; the two appends; bp = child
Create(st, n, cs, k, spare) ==
    IF k = 0
    THEN [st EXCEPT !.bp = Detached(st.next), !.next = @ + 1]
    ELSE [st EXCEPT !.bp = Attached(st.bp.at \o <<k>>, st.next),
                    !.next = @ + 1,
                    !.tree = SetChildren(@, st.bp.at,
                                 Overwritten(cs, k, NewNode(st.next, n, "none", <<>>), spare))]

\* the part of the loop body behind the range loop
BodyPartChild(st, n, cs, k, create, spare) ==
    IF k > 0 /\ cs[k].Number = n THEN Descend(st, n, cs, k)
    ELSE IF create THEN Create(st, n, cs, k, spare)
    ELSE ReturnNil(st)

\* n, err := strconv.Atoi(s[b:e]); b = e + 1; if err != nil || n == 0
BodyPartNumber(st, n, e, create, spare) ==
    IF n <= 0 THEN ReturnNil(st)
    ELSE BodyPartChild([st EXCEPT !.b = e + 1], n, Children(st.tree, st.bp),
                       RangeStop(Children(st.tree, st.bp), n, 1), create, spare)

\* one turn of the loop, e behind the digits that start at b
BodyPartTurn(s, st, e, create, spare) ==
    IF e < Len(s) /\ At(s, e) # Dot THEN ReturnNil(st)
    ELSE BodyPartNumber(st, Atoi(Slice(s, st.b, e)), e, create, spare)

RECURSIVE BodyPartLoop(_, _, _, _)
\* for b < len(s) { ... }
BodyPartLoop(s, st, create, spare) ==
    IF st.returned \/ st.b >= Len(s) THEN st
    ELSE BodyPartLoop(s, BodyPartTurn(s, st, ScanDigits(s, st.b), create, spare),
                      create, spare)

\* Message.BodyPart(s, create) on a Message whose Parts are t: the Part that
\* is returned and the Parts afterwards.  spare tells whether the array of
\* a Parts list has room for one more element.
BodyPart(t, s, create, spare, next) ==
    BodyPartLoop(s, BodyPartStart(t, next), create, spare)

(* ------------------------------- base64 -------------------------------- *)

Equals == 61

\* to64: "ABCDEFGHIJKLMNOPQRSTUVWXYZabcdefghijklmnopqrstuvwxyz0123456789+/"
to64 ==
 <<
    65, 66, 67, 68, 69, 70, 71, 72, 73, 74, 75, 76, 77, 78, 79, 80,
    81, 82, 83, 84, 85, 86, 87, 88, 89, 90, 97, 98, 99, 100, 101, 102,
    103, 104, 105, 106, 107, 108, 109, 110, 111, 112, 113, 114, 115, 116, 117, 118,
    119, 120, 121, 122, 48, 49, 50, 51, 52, 53, 54, 55, 56, 57, 43, 47
 >>

\* from64, indexed from 0 in the code and from 1 here
from64 ==
 <<
    64, 99, 99, 99, 99, 99, 99, 99, 65, 99, 65, 99, 99, 65, 99, 99,
    99, 99, 99, 99, 99, 99, 99, 99, 99, 99, 99, 99, 99, 99, 99, 99,
    99, 99, 99, 99, 99, 99, 99, 99, 99, 99, 99, 62, 99, 99, 99, 63,
    52, 53, 54, 55, 56, 57, 58, 59, 60, 61, 99, 99, 99, 64, 99, 99,
    99, 0, 1, 2, 3, 4, 5, 6, 7, 8, 9, 10, 11, 12, 13, 14,
    15, 16, 17, 18, 19, 20, 21, 22, 23, 24, 25, 99, 99, 99, 99, 99,
    99, 26, 27, 28, 29, 30, 31, 32, 33, 34, 35, 36, 37, 38, 39, 40,
    41, 42, 43, 44, 45, 46, 47, 48, 49, 50, 51, 99, 99, 99, 99, 99
 >>

\* the four bytes written for s[i], s[i+1], s[i+2]; the shifts and masks on
\* bytes are written as divisions and remainders
\*   (a>>2)&63, ((a<<4)&48)+((b>>4)&15), ((b<<2)&60)+((c>>6)&3), c&63
E64Group(a, b, c) ==
    << to64[((a \div 4) % 64) + 1],
       to64[((a % 4) * 16) + (b \div 16) + 1],
       to64[((b % 16) * 4) + (c \div 64) + 1],
       to64[(c % 64) + 1] >>

\* the line end after a group that fills the line
E64LineEnd(lineLength, c) ==
    IF lineLength > 0 /\ c >= lineLength THEN <<CR, LF>> ELSE <<>>

RECURSIVE E64Loop(_, _, _, _, _)
\* for i <= l-3 { ... }: the bytes written, and i and c behind the loop
E64Loop(s, lineLength, i, c, buf) ==
    IF i <= Len(s) - 3
    THEN E64Loop(s, lineLength, i + 3,
                 IF lineLength > 0 /\ c + 4 >= lineLength THEN 0 ELSE c + 4,
                 buf \o E64Group(At(s, i), At(s, i + 1), At(s, i + 2))
                     \o E64LineEnd(lineLength, c + 4))
    ELSE [i |-> i, c |-> c, buf |-> buf]

\* if i < l { ... }: the last one or two bytes, padded with '='
E64Rest(s, i) ==
    IF i >= Len(s) THEN <<>>
    ELSE IF i + 1 < Len(s)
         THEN SubSeq(E64Group(At(s, i), At(s, i + 1), 0), 1, 3) \o <<Equals>>
         ELSE SubSeq(E64Group(At(s, i), 0, 0), 1, 2) \o <<Equals, Equals>>

\* the end of e64: the rest and the last line end
E64End(s, lineLength, r) ==
    r.buf \o E64Rest(s, r.i) \o (IF lineLength > 0 /\ r.c > 0 THEN <<CR, LF>> ELSE <<>>)

\* e64(s, lineLength)
e64(s, lineLength) == E64End(s, lineLength, E64Loop(s, lineLength, 0, 0, <<>>))

\* c := s[p]; if c <= 'z' { c = from64[c] }
De64Code(c) == IF c <= 122 THEN from64[c + 1] ELSE c

\* the switch on m, with every byte kept: case 3 without the write
De64Byte_NoLast(c, m, decoded) ==
    IF m = 0 THEN [decoded |-> (c * 4) % 256, wrote |-> <<>>]
    ELSE IF m = 1
         THEN [decoded |-> (c % 16) * 16, wrote |-> <<(decoded + (c \div 16)) % 256>>]
    ELSE IF m = 2
         THEN [decoded |-> (c % 4) * 64, wrote |-> <<(decoded + (c \div 4)) % 256>>]
    ELSE [decoded |-> (decoded + c) % 256, wrote |-> <<>>]

\* the switch on m for a code c < 64: the new value of decoded and the byte
\* written, if any
De64Byte(c, m, decoded) ==
    IF m = 0 THEN [decoded |-> (c * 4) % 256, wrote |-> <<>>]
    ELSE IF m = 1
         THEN [decoded |-> (c % 16) * 16, wrote |-> <<(decoded + (c \div 16)) % 256>>]
    ELSE IF m = 2
         THEN [decoded |-> (c % 4) * 64, wrote |-> <<(decoded + (c \div 4)) % 256>>]
    ELSE [decoded |-> (decoded + c) % 256, wrote |-> <<(decoded + c) % 256>>]

\* the locals of de64 and the bytes written
De64State(p, m, decoded, buf) == [p |-> p, m |-> m, decoded |-> decoded, buf |-> buf]

\* one turn of the loop on the code c of s[p]: 64 ('=' and NUL) ends the
\* loop (p is set behind the end here), every other code from 64 on is
\* passed over
De64Turn(s, st, c, d) ==
    IF c < 64 THEN De64State(st.p + 1, (st.m + 1) % 4, d.decoded, st.buf \o d.wrote)
    ELSE IF c = 64 THEN De64State(Len(s), st.m, st.decoded, st.buf)
    ELSE De64State(st.p + 1, st.m, st.decoded, st.buf)

RECURSIVE De64Loop(_, _)
\* for p < len(s) && !done { ... }
De64Loop(s, st) ==
    IF st.p >= Len(s) THEN st.buf
    ELSE De64Loop(s, De64Turn(s, st, De64Code(At(s, st.p)),
                              De64Byte(De64Code(At(s, st.p)), st.m, st.decoded)))

\* de64(s)
de64(s) == De64Loop(s, De64State(0, 0, 0, <<>>))

(* -------------------------- quoted-printable --------------------------- *)

Underscore == 95

\* qphexdigits: "0123456789ABCDEF"
qphexdigits == <<48, 49, 50, 51, 52, 53, 54, 55, 56, 57, 65, 66, 67, 68, 69, 70>>

\* buf[l] = '='; buf[l] = qphexdigits[s[i]/16]; buf[l] = qphexdigits[s[i]%16]
QPHex(c) == <<Equals, qphexdigits[(c \div 16) + 1], qphexdigits[(c % 16) + 1]>>

\* "From "
FromBytes == <<70, 114, 111, 109, 32>>

\* maybeBoundary(s, i), which the sources at hand do not hold: by the
\* comment of eQP a line that looks like a MIME boundary, taken here as one
\* that starts with "--"
maybeBoundary(s, i) == i + 1 < Len(s) /\ At(s, i) = Hyphen /\ At(s, i + 1) = Hyphen

\* the state of the loop of eQP: i, the bytes buf[:l], and c
QPState(i, buf, c) == [i |-> i, buf |-> buf, c |-> c]

\* a line feed at i: a space that ends the line is written as =20; CR LF
\* stays CR LF and LF stays LF
QPLineFeed(s, i, buf) ==
    QPState(IF At(s, i) = CR THEN i + 2 ELSE i + 1,
            (IF buf # <<>> /\ buf[Len(buf)] = SP
             THEN SubSeq(buf, 1, Len(buf) - 1) \o <<Equals, 50, 48>>
             ELSE buf)
            \o (IF At(s, i) = CR THEN <<CR, LF>> ELSE <<LF>>),
            0)

RECURSIVE QPBreakScan(_, _)
\* j := 1; for j < 10 && buf[l-j] != ' ' { j++ }
QPBreakScan(buf, j) ==
    IF j < 10 /\ buf[Len(buf) - j + 1] # SP THEN QPBreakScan(buf, j + 1) ELSE j

\* if c > 72 { ... }: "=" CR LF goes in behind the last space among the
\* nine bytes written last, or at the end; j is what QPBreakScan returns
QPSoftBreak(buf, c, j) ==
    IF c > 72
    THEN IF j >= 10
         THEN [buf |-> buf \o <<Equals, CR, LF>>, c |-> 0]
         ELSE [buf |-> SubSeq(buf, 1, Len(buf) - (j - 1)) \o <<Equals, CR, LF>>
                       \o SubSeq(buf, Len(buf) - (j - 1) + 1, Len(buf)),
               c |-> j - 1]
    ELSE [buf |-> buf, c |-> c]

\* the test without s[i] != '=': an equals sign is written as it is
QPLiteral_Equals(s, i, c, underscore, from) ==
    /\ underscore => (At(s, i) \in 48..57 \/ At(s, i) \in 97..122 \/ At(s, i) \in 65..90)
    /\ ~(from /\ c = 0 /\ maybeBoundary(s, i))
    /\ ~(from /\ c = 0 /\ Len(s) >= i + 5 /\ Slice(s, i, i + 5) = FromBytes)
    /\ \/ (At(s, i) >= SP /\ At(s, i) < 127)
       \/ At(s, i) = HT

\* whether s[i] is written as it is
QPLiteral(s, i, c, underscore, from) ==
    /\ underscore => (At(s, i) \in 48..57 \/ At(s, i) \in 97..122 \/ At(s, i) \in 65..90)
    /\ ~(from /\ c = 0 /\ maybeBoundary(s, i))
    /\ ~(from /\ c = 0 /\ Len(s) >= i + 5 /\ Slice(s, i, i + 5) = FromBytes)
    /\ \/ (At(s, i) >= SP /\ At(s, i) < 127 /\ At(s, i) # Equals)
       \/ At(s, i) = HT

\* the byte at i behind the soft line feed b
QPByte(s, i, b, underscore, from) ==
    IF underscore /\ At(s, i) = SP
    THEN QPState(i + 1, b.buf \o <<Underscore>>, b.c + 1)
    ELSE IF QPLiteral(s, i, b.c, underscore, from)
         THEN QPState(i + 1, b.buf \o <<At(s, i)>>, b.c + 1)
         ELSE QPState(i + 1, b.buf \o QPHex(At(s, i)), b.c + 3)

\* one turn of the loop
QPTurn(s, st, underscore, from) ==
    IF At(s, st.i) = LF \/ (st.i < Len(s) - 1 /\ At(s, st.i) = CR /\ At(s, st.i + 1) = LF)
    THEN QPLineFeed(s, st.i, st.buf)
    ELSE QPByte(s, st.i,
                QPSoftBreak(st.buf, st.c, IF st.c > 72 THEN QPBreakScan(st.buf, 1) ELSE 0),
                underscore, from)

RECURSIVE QPLoop(_, _, _, _)
\* for i < len(s) { ... }
QPLoop(s, st, underscore, from) ==
    IF st.i >= Len(s) THEN st.buf
    ELSE QPLoop(s, QPTurn(s, st, underscore, from), underscore, from)

\* eQP(s, underscore, from)
eQP(s, underscore, from) == QPLoop(s, QPState(0, <<>>, 0), underscore, from)

\* the value of a hexadecimal digit, -1 for any other byte
HexDigit(d) ==
    IF d \in 48..57 THEN d - 48
    ELSE IF d \in 65..70 THEN d - 55
    ELSE IF d \in 97..102 THEN d - 87
    ELSE -1

\* strconv.ParseUint(s[i+1:i+3], 16, 8): the value, -1 for an error
ParseHex(a, b) ==
    IF HexDigit(a) < 0 \/ HexDigit(b) < 0 THEN -1 ELSE 16 * HexDigit(a) + HexDigit(b)

RECURSIVE SkipWhite(_, _)
\* for j < len(s) && (s[j] == ' ' || s[j] == '\t') { j++ }
SkipWhite(s, j) ==
    IF j < Len(s) /\ At(s, j) \in {SP, HT} THEN SkipWhite(s, j + 1) ELSE j

\* what deQP does at the '=' at i, j behind the whitespace after it: the
\* bytes written and the new i
DeQPEquals(s, i, j) ==
    IF j < Len(s) /\ At(s, j) = LF THEN [wrote |-> <<>>, i |-> j + 1]
    ELSE IF j < Len(s) - 1 /\ At(s, j) = CR /\ At(s, j + 1) = LF
         THEN [wrote |-> <<>>, i |-> j + 2]
    ELSE IF i + 2 < Len(s)
         THEN IF ParseHex(At(s, i + 1), At(s, i + 2)) >= 0
              THEN [wrote |-> <<ParseHex(At(s, i + 1), At(s, i + 2))>>, i |-> i + 3]
              ELSE [wrote |-> <<Equals>>, i |-> i + 1]
    ELSE [wrote |-> <<0>>, i |-> i + 3]

\* the state of the loop of deQP: i and the bytes written so far
DeQPState(i, buf) == [i |-> i, buf |-> buf]

\* the state behind the '=' that d was read from
DeQPNext(d, st) == DeQPState(d.i, st.buf \o d.wrote)

\* one turn of the loop
DeQPTurn(s, st, underscore) ==
    IF At(s, st.i) # Equals
    THEN DeQPState(st.i + 1,
                   st.buf \o <<IF underscore /\ At(s, st.i) = Underscore
                                THEN SP ELSE At(s, st.i)>>)
    ELSE DeQPNext(DeQPEquals(s, st.i, SkipWhite(s, st.i + 1)), st)

RECURSIVE DeQPLoop(_, _, _)
\* for i < len(s) { ... }
DeQPLoop(s, st, underscore) ==
    IF st.i >= Len(s) THEN st.buf
    ELSE DeQPLoop(s, DeQPTurn(s, st, underscore), underscore)

\* deQP(s, underscore)
deQP(s, underscore) == DeQPLoop(s, DeQPState(0, <<>>), underscore)

(* ------------------------------ addresses ------------------------------ *)
(* Addresses as the parser reads and writes them: name, Localpart and      *)
(* Domain are byte strings.                                                *)

DoubleQuote == 34
Comma == 44
Semicolon == 59
Less == 60
Greater == 62
AtSign == 64

NormalAddressType == "NormalAddressType"
LocalAddressType == "LocalAddressType"
EmptyGroupAddressType == "EmptyGroupAddressType"
BounceAddressType == "BounceAddressType"

\* the type NewAddress(name, localpart, domain) gives the address
AddressType(a) ==
    IF a.Domain # <<>> THEN NormalAddressType
    ELSE IF a.Localpart # <<>> THEN LocalAddressType
    ELSE IF a.name # <<>> THEN EmptyGroupAddressType
    ELSE BounceAddressType

\* the bytes of atext (RFC 2822, 3.2.4) as Name, localpartIsSensible and
\* atom list them
IsAtext(c) ==
    \/ IsAlnum(c)
    \/ c \in {33, 35, 36, 37, 38, 39, 42, 43, 45, 47, 61, 63, 94, 95, 96,
              123, 124, 125, 126}

\* Address.Name for a name of atext bytes and spaces, which is returned as
\* it is; the quoting of other names is not followed
Name(a) == CASE \A k \in DOMAIN a.name : IsAtext(a.name[k]) \/ a.name[k] = SP -> a.name

RECURSIVE SensibleFrom(_, _)
\* the loop of localpartIsSensible; a dot is followed by a read of the next
\* byte, which a final dot does not have
SensibleFrom(lp, i) ==
    IF i >= Len(lp) THEN Ok(TRUE)
    ELSE IF At(lp, i) = Dot
         THEN IF i + 1 >= Len(lp) THEN Panic("index out of range")
              ELSE IF At(lp, i + 1) = Dot THEN Ok(FALSE)
              ELSE SensibleFrom(lp, i + 1)
         ELSE IF ~(IsAtext(At(lp, i)) \/ At(lp, i) >= 161) THEN Ok(FALSE)
              ELSE SensibleFrom(lp, i + 1)

\* Address.localpartIsSensible
localpartIsSensible(a) ==
    IF a.Localpart = <<>> THEN Ok(FALSE) ELSE SensibleFrom(a.Localpart, 0)

\* the text of a Local or Normal address whose localpart is sensible; a
\* localpart that needs quoting is not followed
MailboxText(a, sensible) ==
    CASE sensible.failure # "none" -> sensible
      [] sensible.failure = "none" /\ sensible.val ->
            Ok( (IF AddressType(a) = NormalAddressType /\ a.name # <<>>
                 THEN Name(a) \o <<SP, Less>> ELSE <<>>)
                \o a.Localpart
                \o (IF AddressType(a) = NormalAddressType
                    THEN <<AtSign>> \o a.Domain ELSE <<>>)
                \o (IF AddressType(a) = NormalAddressType /\ a.name # <<>>
                    THEN <<Greater>> ELSE <<>>) )

\* Address.toString(false)
toString(a) ==
    IF AddressType(a) = BounceAddressType THEN Ok(<<Less, Greater>>)
    ELSE IF AddressType(a) = EmptyGroupAddressType
         THEN Ok(Name(a) \o <<Colon, Semicolon>>)
         ELSE MailboxText(a, localpartIsSensible(a))

\* strings.ToTitle on ASCII bytes
TitleBytes(s) == [k \in DOMAIN s |-> IF s[k] \in 97..122 THEN s[k] - 32 ELSE s[k]]

\* the state of an AddressParser next to the position i it has come to:
\* the addresses added, whether firstError is set, and the runtime failure
\* that ended the parse, if any.  Address.err is not carried.
Parser(i, as, e, f) == [i |-> i, Addresses |-> as, firstError |-> e, failure |-> f]

RECURSIVE space(_, _)
\* AddressParser.space
space(s, i) ==
    IF i >= 0 /\ IsSpace(At(s, i)) THEN space(s, i - 1) ELSE i

\* AddressParser.comment where no ')' ends the text before i: the space is
\* passed over.  Comments in parentheses are not followed.
comment(s, i) ==
    CASE ~(space(s, i) > 0 /\ At(s, space(s, i)) = CloseParen) -> space(s, i)

RECURSIVE atomScan(_, _)
\* the loop of atom: back over atext and 8-bit bytes
atomScan(s, i) ==
    IF i >= 0 /\ (IsAtext(At(s, i)) \/ At(s, i) >= 128)
    THEN atomScan(s, i - 1)
    ELSE i

\* r := s[i+1 : j+1]; i = p.comment(i)
atomFrom(s, j, k) == [r |-> Slice(s, k + 1, j + 1), i |-> comment(s, k)]

\* AddressParser.atom
atom(s, i) == atomFrom(s, comment(s, i), atomScan(s, comment(s, i)))

\* dom = a + "." + dom for a non-empty atom a
DomainJoin(d, a) ==
    [r |-> IF a.r # <<>> THEN a.r \o <<Dot>> \o d.r ELSE d.r, i |-> a.i]

RECURSIVE domainDots(_, _)
\* for i >= 0 && p.s[i] == '.'
domainDots(s, d) ==
    IF d.i >= 0 /\ At(s, d.i) = Dot
    THEN domainDots(s, DomainJoin(d, atom(s, d.i - 1)))
    ELSE d

\* AddressParser.domain for a domain of atoms and dots; a domain that ends
\* in a digit (the search for an IPv4 address) or in ']' (a literal) is not
\* followed
domain(s, i) ==
    IF comment(s, i) < 0 THEN [r |-> <<>>, i |-> comment(s, i)]
    ELSE CASE At(s, comment(s, i)) \notin (48..57) \cup {93} ->
                  domainDots(s, atom(s, comment(s, i)))

\* what localpart returns: the localpart, the position, whether
\* "Empty Localpart" was recorded, and the failure that ended the call
LocalpartResult(r, i, f) ==
    [r |-> r, i |-> i, empty |-> f = "none" /\ r = <<>>, failure |-> f]

RECURSIVE localpartLoop(_, _, _, _)
\* for more { ... } of localpart: sep is the "." seen before the word that
\* was read last.  After a dot the next turn reads p.s[i] whatever i is.
\* A quoted word is not followed.
localpartLoop(s, i, r, sep) ==
    IF i < 0 THEN LocalpartResult(r, i, "index out of range")
    ELSE CASE At(s, i) # DoubleQuote ->
             IF atom(s, i).i >= 0 /\ At(s, atom(s, i).i) = Dot
             THEN localpartLoop(s, atom(s, i).i - 1, atom(s, i).r \o sep \o r, <<Dot>>)
             ELSE IF HasPrefix(atom(s, i).r, <<37>>)
                  THEN localpartLoop(s, atom(s, i).i, atom(s, i).r \o sep \o r, <<>>)
                  ELSE LocalpartResult(atom(s, i).r \o sep \o r, atom(s, i).i, "none")

\* AddressParser.localpart
localpart(s, i) ==
    IF i < 0 THEN LocalpartResult(<<>>, i, "none")
    ELSE localpartLoop(s, i, <<>>, <<>>)

\* return simplify(r), i
phraseEnd(r, i) == [r |-> simplify(r).val, i |-> i, failure |-> simplify(r).failure]

RECURSIVE phraseLoop(_, _, _)
RECURSIVE phraseWord(_, _, _, _)
\* for !done && i >= 0 of phrase, for words that are atoms or atoms with a
\* dot; quoted words, words after a backslash and encoded words are not
\* followed
phraseLoop(s, i, r) ==
    IF i < 0 THEN phraseEnd(r, i)
    ELSE CASE ~(i > 0 /\ At(s, i) = DoubleQuote) /\ At(s, i) = Dot ->
                  phraseWord(s, r, [r |-> Append(atom(s, i - 1).r, Dot),
                                    i |-> atom(s, i - 1).i], FALSE)
           [] /\ ~(i > 0 /\ At(s, i) = DoubleQuote) /\ At(s, i) # Dot
              /\ ~(atom(s, i).r # <<>> /\ atom(s, i).i >= 0
                   /\ At(s, atom(s, i).i) = Backslash)
              /\ ~HasPrefix(atom(s, i).r, <<Equals, 63>>) ->
                  phraseWord(s, r, atom(s, i), atom(s, i).r = <<>>)

\* the end of one turn: the word w is put before r.  With r not empty,
\* word[len(word)-1] is read of a word that may be empty.
phraseWord(s, r, w, done) ==
    IF r # <<>> /\ w.r = <<>>
    THEN [r |-> r, i |-> w.i, failure |-> "index out of range"]
    ELSE IF done
         THEN phraseEnd(w.r, comment(s, w.i))
         ELSE phraseLoop(s, comment(s, w.i),
                         IF r = <<>> THEN w.r
                         ELSE IF w.r[Len(w.r)] = SP THEN w.r \o r
                         ELSE w.r \o <<SP>> \o r)

\* AddressParser.phrase
phrase(s, i) == phraseLoop(s, comment(s, i), <<>>)

\* AddressParser.route where there is no route to skip; the skipping of a
\* route after ':' is not followed
route(s, i, firstError) ==
    CASE i < 0 \/ firstError -> i
      [] i >= 0 /\ ~firstError /\ At(s, i) # Colon -> i
RECURSIVE addQuotes(_, _)
\* anti-outlook hackery, step 1: the number of quotes that surround name
addQuotes(name, i) ==
    IF /\ i < Len(name) - 1
       /\ At(name, i) = At(name, Len(name) - 1 - i)
       /\ At(name, i) \in {39, DoubleQuote}
    THEN addQuotes(name, i + 1)
    ELSE i

\* "(c)" as a name is unmunged to "c"
addUnmunged(name) ==
    IF Len(name) > 1 /\ At(name, 0) = 40 /\ At(name, Len(name) - 1) = CloseParen
    THEN simplify(Slice(name, 1, Len(name) - 1))
    ELSE Ok(name)

\* anti-outlook, step 2: a name that is the localpart or the whole address
\* is dropped
addName(name, Localpart, Domain) ==
    IF \/ TitleBytes(name) = TitleBytes(Localpart)
       \/ TitleBytes(name) = TitleBytes(Localpart) \o <<AtSign>> \o TitleBytes(Domain)
    THEN <<>>
    ELSE name

\* the rest of add once the quotes are off: simplify, unmunge, compare,
\* append
addSimplified(p, sname, Localpart, Domain) ==
    IF sname.failure # "none" THEN [p EXCEPT !.failure = sname.failure]
    ELSE IF addUnmunged(sname.val).failure # "none"
         THEN [p EXCEPT !.failure = addUnmunged(sname.val).failure]
         ELSE [p EXCEPT !.Addresses =
                  Append(@, Addr(addName(addUnmunged(sname.val).val, Localpart, Domain),
                                 Localpart, Domain))]

\* AddressParser.add for a localpart of at most 256 bytes: the address is
\* appended to p.Addresses
add(p, name, Localpart, Domain) ==
    IF addQuotes(name, 0) > 0
    THEN IF addQuotes(name, 0) > Len(name) - addQuotes(name, 0)
         THEN [p EXCEPT !.failure = "slice bounds out of range"]
         ELSE addSimplified(p, simplify(Slice(name, addQuotes(name, 0),
                                              Len(name) - addQuotes(name, 0))),
                            Localpart, Domain)
    ELSE addSimplified(p, simplify(name), Localpart, Domain)

\* p at the position i
AtPos(p, i) == [p EXCEPT !.i = i]

\* p ended by the failure f
Failed(p, f) == [p EXCEPT !.failure = f]

RECURSIVE addressCommas(_, _)
\* for i > 0 && s[i] == ',' { i--; i = p.comment(i) }
addressCommas(s, i) ==
    IF i > 0 /\ At(s, i) = Comma THEN addressCommas(s, comment(s, i - 1)) ELSE i

RECURSIVE addressGreater(_, _)
\* for i > 0 && s[i] == '>' && s[i-1] == '>' { i-- }
addressGreater(s, i) ==
    IF i > 0 /\ At(s, i) = Greater /\ At(s, i - 1) = Greater
    THEN addressGreater(s, i - 1)
    ELSE i

\* the branch for "<>": the bounce address is added and the phrase before
\* it passed over
addressBounce(p, s, i) ==
    IF add(p, <<>>, <<>>, <<>>).failure # "none" THEN add(p, <<>>, <<>>, <<>>)
    ELSE IF phrase(s, IF i - 2 >= 0 /\ At(s, i - 2) = Less THEN i - 3 ELSE i - 2).failure # "none"
         THEN Failed(p, phrase(s, IF i - 2 >= 0 /\ At(s, i - 2) = Less
                                  THEN i - 3 ELSE i - 2).failure)
         ELSE AtPos(add(p, <<>>, <<>>, <<>>),
                    phrase(s, IF i - 2 >= 0 /\ At(s, i - 2) = Less
                              THEN i - 3 ELSE i - 2).i)

RECURSIVE skipBack(_, _, _)
\* for i >= from && s[i] in set { i-- }, from being 0 or 1
skipBack(s, i, set) ==
    IF i >= 0 /\ At(s, i) \in set THEN skipBack(s, i - 1, set) ELSE i

RECURSIVE skipAts(_, _)
\* for i > 0 && s[i] == '@' { i-- }
skipAts(s, i) == IF i > 0 /\ At(s, i) = AtSign THEN skipAts(s, i - 1) ELSE i

\* a mailbox read so far: name, localpart, domain, the position and the state
Mailbox(p, name, lp, dom, i) == [p |-> p, name |-> name, lp |-> lp, dom |-> dom, i |-> i]

\* name-addr, the end: the phrase before '<' is the display-name, unless a
\* '@' or '<' comes before it; then the address is added
nameAddrName(s, m, n) ==
    IF n.failure # "none" THEN Failed(m.p, n.failure)
    ELSE CASE ~(n.i >= 0 /\ At(s, n.i) \in {AtSign, Less}) ->
                  AtPos(add(m.p,
                            IF n.r = <<>> THEN m.name
                            ELSE IF \A k \in DOMAIN n.r : n.r[k] >= 32 /\ n.r[k] < 127
                                 THEN n.r ELSE <<>>,
                            m.lp, m.dom),
                        n.i)

\* name-addr after the addr-spec: if i >= 0 && s[i] == '<' the phrase is
\* read, otherwise the address has no name
nameAddrEnd(s, m) ==
    IF m.p.failure # "none" THEN m.p
    ELSE IF m.i >= 0 /\ At(s, m.i) = Less
         THEN nameAddrName(s, m, phrase(s, skipBack(s, m.i - 1, {Less})))
         ELSE AtPos(add(m.p, m.name, m.lp, m.dom), m.i)

\* name-addr, after the localpart l: s[i] != '<' is read whatever i is; a
\* run of letters and spaces between '<' and the localpart is put before it
nameAddrLocalpart(s, p, dom, l) ==
    IF l.failure # "none" THEN Mailbox(Failed(p, l.failure), <<>>, l.r, dom, l.i)
    ELSE IF l.i < 0
         THEN Mailbox(Failed(p, "index out of range"), <<>>, l.r, dom, l.i)
         ELSE IF At(s, l.i) # Less
                 /\ skipBack(s, l.i, (65..90) \cup (97..122) \cup {SP}) >= 0
                 /\ At(s, skipBack(s, l.i, (65..90) \cup (97..122) \cup {SP})) = Less
              THEN Mailbox([p EXCEPT !.firstError = @ \/ l.empty], <<>>,
                           Slice(s, skipBack(s, l.i, (65..90) \cup (97..122) \cup {SP}) + 1,
                                 l.i + 1)
                             \o (IF At(s, l.i + 1) = SP THEN <<SP>> ELSE <<>>)
                             \o l.r,
                           dom,
                           skipBack(s, l.i, (65..90) \cup (97..122) \cup {SP}))
              ELSE Mailbox([p EXCEPT !.firstError = @ \/ l.empty], <<>>, l.r, dom, l.i)

\* i = p.route(i) at the end of the addr-spec
Routed(s, m) ==
    IF m.p.failure # "none" THEN m
    ELSE [m EXCEPT !.i = route(s, m.i, m.p.firstError)]

\* the addr-spec after '@': the localpart is read where the text before
\* the '@' is neither ";" nor nothing but a comment (neither is followed)
afterAt(s, i) ==
    CASE ~(comment(s, skipAts(s, i - 1)) >= 1
           /\ At(s, comment(s, skipAts(s, i - 1))) = Semicolon)
         /\ ~(skipAts(s, i - 1) > comment(s, skipAts(s, i - 1))
              /\ comment(s, skipAts(s, i - 1)) < 0) ->
             localpart(s, comment(s, skipAts(s, i - 1)))

\* the branch for s[i] == '>' (name-addr), d being the domain read before
\* it; s[i] == '<' is read whatever i is
addressNameAddr(p, s, d) ==
    IF d.i < 0 THEN Failed(p, "index out of range")
    ELSE IF At(s, d.i) = Less
         THEN nameAddrEnd(s, Mailbox(p, <<>>, d.r, <<>>, d.i))
         ELSE IF At(s, d.i) = AtSign
              THEN nameAddrEnd(s, Routed(s, nameAddrLocalpart(s, p, d.r, afterAt(s, d.i))))
              ELSE nameAddrEnd(s, Routed(s, Mailbox(p, <<>>, <<>>, d.r, d.i)))

\* the branch for a group that ends in ";" with nothing between ':' and
\* ';': the phrase before ':' is added as the name of an empty group.
\* Groups with members are not followed.
addressGroup(p, s, i) ==
    CASE ~(i - 1 > 0 /\ At(s, i - 1) # Colon) ->
        IF At(s, i - 1) # Colon THEN AtPos(p, i - 1)
        ELSE IF phrase(s, i - 2).failure # "none"
             THEN Failed(p, phrase(s, i - 2).failure)
             ELSE AtPos(add(p, phrase(s, i - 2).r, <<>>, <<>>), phrase(s, i - 2).i)

\* addr-spec, the end: i = p.route(i); i = p.comment(i); the address is
\* added unless everything is empty
addrSpecEnd(s, m) ==
    IF m.p.failure # "none" THEN m.p
    ELSE IF m.lp # <<>> \/ m.dom # <<>> \/ m.name # <<>>
         THEN AtPos(add(m.p, m.name, m.lp, m.dom), comment(s, m.i))
         ELSE AtPos(m.p, comment(s, m.i))

\* addr-spec, after the localpart l
addrSpecLocalpart(p, dom, l) ==
    Mailbox([p EXCEPT !.firstError = @ \/ l.empty, !.failure = l.failure],
            <<>>, l.r, dom, l.i)

\* the last branch (addr-spec), d being the domain read; s[i] == '@' is
\* read whatever i is
addressAddrSpec(p, s, d) ==
    IF d.i < 0 THEN Failed(p, "index out of range")
    ELSE IF At(s, d.i) = AtSign
         THEN addrSpecEnd(s, Routed(s, addrSpecLocalpart(p, d.r, afterAt(s, d.i))))
         ELSE addrSpecEnd(s, Routed(s, Mailbox(p, <<>>, d.r, <<>>, d.i)))

\* the branches of address at the position i that the commas and '>' have
\* been passed over to.  The branches for ":;>", ";>" with ":@", "?=",
\* a '"' and a date need one of those in the text and are not followed.
addressAt(p, s, i) ==
    IF i < 0 THEN p
    ELSE IF i > 1 /\ At(s, i - 1) = Less /\ At(s, i) = Greater
         THEN addressBounce(p, s, i)
         ELSE CASE At(s, i) = Greater /\ ~(i > 2 /\ At(s, i - 1) = Semicolon) ->
                       addressNameAddr(p, s, domain(s, i - 1))
                [] At(s, i) = Semicolon /\ \E k \in 1..i : s[k] = Colon ->
                       addressGroup(p, s, i)
                [] /\ At(s, i) \notin {Greater, Equals, DoubleQuote}
                   /\ ~(At(s, i) = Semicolon /\ \E k \in 1..i : s[k] = Colon)
                   /\ \A k \in DOMAIN s : s[k] # DoubleQuote ->
                       addressAddrSpec(p, s, domain(s, i))

\* i = p.comment(i); return i
addressReturn(p, s) ==
    IF p.failure # "none" THEN p ELSE AtPos(p, comment(s, p.i))

\* AddressParser.address
address(p, s, i) ==
    addressReturn(addressAt(p, s, addressGreater(s, addressCommas(s, comment(s, i)))), s)

\* the key of Uniquify on byte strings
UniquifyBytesKey(a) == <<TitleBytes(a.Localpart), TitleBytes(a.Domain)>>

RECURSIVE UniquifyBytes(_, _, _)
\* Addresses.Uniquify on the parsed addresses: the first address of a key
\* stays, replaced by a later one with a name if it has none
UniquifyBytes(as, i, unique) ==
    IF i > Len(as) THEN unique
    ELSE IF \E k \in DOMAIN unique : UniquifyBytesKey(unique[k]) = UniquifyBytesKey(as[i])
         THEN UniquifyBytes(as, i + 1,
                  [k \in DOMAIN unique |->
                      IF /\ UniquifyBytesKey(unique[k]) = UniquifyBytesKey(as[i])
                         /\ unique[k].name = <<>> /\ as[i].name # <<>>
                      THEN as[i] ELSE unique[k]])
         ELSE UniquifyBytes(as, i + 1, Append(unique, as[i]))

RECURSIVE parseSeparators(_, _, _, _)
\* for i < j && i >= 0 && (s[i] == ',' || (!colon && s[i] == ';'))
parseSeparators(s, p, j, colon) ==
    IF /\ p.failure = "none"
       /\ p.i < j /\ p.i >= 0
       /\ (At(s, p.i) = Comma \/ (~colon /\ At(s, p.i) = Semicolon))
    THEN parseSeparators(s, AtPos(p, space(s, p.i - 1)), j, colon)
    ELSE p

RECURSIVE parseLoop(_, _, _, _)
\* for i >= 0 && i < j { j = i; i = p.address(i); ... }
parseLoop(s, p, j, colon) ==
    IF p.failure = "none" /\ p.i >= 0 /\ p.i < j
    THEN parseLoop(s, parseSeparators(s, address(p, s, p.i), p.i, colon), p.i, colon)
    ELSE p

\* the parser as NewAddressParser returns it after the first plan: the
\* addresses made unique.  The second and third plan, tried when the first
\* stops before the start of the text or records an error, are not followed.
parseReturn(p) ==
    IF p.failure # "none" THEN p
    ELSE CASE p.i < 0 /\ ~p.firstError ->
                  [p EXCEPT !.Addresses = UniquifyBytes(p.Addresses, 1, <<>>)]

\* NewAddressParser(s)
NewAddressParser(s) ==
    parseReturn(parseLoop(s, Parser(Len(s) - 1, <<>>, FALSE, "none"), Len(s),
                          \E k \in DOMAIN s : s[k] = Colon))

(* --------------------------- the state machine ------------------------- *)

VARIABLES
    Fields,       \* Header.Fields
    mode,         \* Header.mode
    defaultType,  \* Header.defaultType
    err,          \* Header.err, <<>> for nil
    verified,     \* Header.verified
    failure,      \* "none", or the runtime failure that ended the last call
    op,           \* the operation that led to this state
    pre,          \* what the operation found: field list, Valid(), cache state
    ret,          \* the value the last Valid() call returned
    log,          \* the fields handed to Add, in call order (Add-only runs)
    rfc5322,      \* the bytes handed to ReadHeader, Parse or parseMultipart
    numBytes,     \* Header.numBytes
    Parts,        \* Part.Parts
    tree,         \* the Parts of a Message that BodyPart walks, with their Parts
    arg,          \* the argument of the last call of a function on strings
    out           \* what that call returned

vars == <<Fields, mode, defaultType, err, verified, failure, op, pre, ret, log,
          rfc5322, numBytes, Parts, tree, arg, out>>

\* what the calls on a Header leave alone
parsing == <<rfc5322, numBytes, Parts>>

\* what the calls on a Header and the parsers leave alone
calls == <<tree, arg, out>>

\* the header as the operators take it
Header == Hdr(Fields, err, verified)

NoPre == [Fields |-> <<>>, valid |-> FALSE, fresh |-> FALSE]
Before == [Fields |-> Fields, valid |-> Valid(Header, mode), fresh |-> ~verified]

\* results of NewHeaderField(key, value) that the Add action hands to the
\* header: e.g. "From: a@x.example", "Date: Sat, 01 Jan 2000 00:00:00 +0000",
\* "Date: yesterday" (unparsable), "Subject: Hi", "Mime-Version: 1.0",
\* "Content-Type: text/plain", "Content-Type: multipart/mixed; boundary=b",
\* "Content-Transfer-Encoding: 7bit"
FieldCatalogue ==
    { NewAddressField(FromFieldName, <<AddrA>>, FALSE),
      TextField(DateFieldName, "Sat, 01 Jan 2000 00:00:00 +0000", FALSE),
      TextField(DateFieldName, "", TRUE),
      TextField(SubjectFieldName, "Hi", FALSE),
      TextField(MIMEVersionFieldName, "1.0", FALSE),
      NewContentType("text", "plain", <<>>, FALSE),
      NewContentType("multipart", "mixed", <<"boundary">>, FALSE),
      NewContentTransferEncoding("7bit", BinaryEncoding, FALSE) }

\* the fields of the Add-only runs: address fields of the five merged names
\* and of Sender, and a Subject
AddCatalogue ==
    { NewAddressField(n, as, FALSE) :
        n \in MergedNames \cup {SenderFieldName},
        as \in { <<AddrA>>, <<AddrB>>, <<AddrB, AddrA>> } }
    \cup { TextField(SubjectFieldName, "Hi", FALSE) }

Init ==
    /\ Fields = <<>>
    /\ mode \in {RFC5322Header, MIMEHeader}
    /\ defaultType \in {TextPlainContentType, MessageRFC822ContentType}
    /\ err = <<>>
    /\ verified = FALSE
    /\ failure = "none"
    /\ op = "new"
    /\ pre = NoPre
    /\ ret = FALSE
    /\ log = <<>>
    /\ rfc5322 = <<>>
    /\ numBytes = 0
    /\ Parts = <<>>
    /\ tree = <<>>
    /\ arg = <<>>
    /\ out = <<>>

\* install the header h as the new state
Install(h) ==
    /\ Fields' = h.Fields
    /\ err' = h.err
    /\ verified' = h.verified

WithinBounds(F) ==
    /\ Len(F) <= MaxFields
    /\ \A i \in DOMAIN F : Len(F[i].Addresses) <= MaxAddrs

\* Header.Add(key, value) == addField(NewHeaderField(key, value))
CallAdd(f) ==
    /\ failure = "none"
    /\ WithinBounds(addField(Header, f).Fields)
    /\ Install(addField(Header, f))
    /\ op' = "Add"
    /\ pre' = NoPre
    /\ ret' = FALSE
    /\ UNCHANGED <<mode, defaultType, failure, log, parsing, calls>>

\* Header.RemoveAt(i)
CallRemoveAt(i) ==
    /\ failure = "none"
    /\ i \in DOMAIN Fields
    /\ Install(hRemoveAt(Header, i))
    /\ op' = "RemoveAt"
    /\ pre' = NoPre
    /\ ret' = FALSE
    /\ UNCHANGED <<mode, defaultType, failure, log, parsing, calls>>

\* Header.RemoveAllNamed(name)
CallRemoveAllNamed(n) ==
    /\ failure = "none"
    /\ Named(Fields, n) # {}
    /\ Install(hRemoveAllNamed(Header, n))
    /\ op' = "RemoveAllNamed"
    /\ pre' = NoPre
    /\ ret' = FALSE
    /\ UNCHANGED <<mode, defaultType, failure, log, parsing, calls>>

\* Header.Valid()
CallValid ==
    /\ failure = "none"
    /\ Install(verify(Header, mode))
    /\ ret' = Valid(Header, mode)
    /\ op' = "Valid"
    /\ pre' = Before
    /\ UNCHANGED <<mode, defaultType, failure, log, parsing, calls>>

\* Header.Repair()
CallRepair ==
    /\ failure = "none"
    /\ Install(Repair(Header, mode).h)
    /\ failure' = Repair(Header, mode).failure
    /\ op' = "Repair"
    /\ pre' = Before
    /\ ret' = FALSE
    /\ UNCHANGED <<mode, defaultType, log, parsing, calls>>

\* Header.Simplify()
CallSimplify ==
    /\ failure = "none"
    /\ Install(Simplify(Header, mode, defaultType))
    /\ op' = "Simplify"
    /\ pre' = Before
    /\ ret' = FALSE
    /\ UNCHANGED <<mode, defaultType, failure, log, parsing, calls>>

Next ==
    \/ \E f \in FieldCatalogue : CallAdd(f)
    \/ \E i \in 1..MaxFields : CallRemoveAt(i)
    \/ \E n \in { f.name : f \in FieldCatalogue } : CallRemoveAllNamed(n)
    \/ CallValid
    \/ CallRepair
    \/ CallSimplify

Spec == Init /\ [][Next]_vars

\* Add calls only, from the empty header, each recorded in log
LoggedAdd(f) ==
    /\ Len(log) < MaxAdds
    /\ failure = "none"
    /\ Install(addField(Header, f))
    /\ op' = "Add"
    /\ pre' = NoPre
    /\ log' = Append(log, f)
    /\ UNCHANGED <<mode, defaultType, failure, ret, parsing, calls>>

NextAdd == \E f \in AddCatalogue : LoggedAdd(f)

SpecAdd == Init /\ [][NextAdd]_vars

(* ------------------------- the bytes that are read --------------------- *)

\* most field lines of a header that ReadHeader is handed
MaxLines == 2
\* most sections of a multipart body
MaxParts == 2

EOL == <<CR, LF>>

\* name ": " value, without the line end
FieldLine(name, value) == name \o <<Colon, SP>> \o value

FromLine == FieldLine(FromNameBytes, AddressBytes)
DateLine == FieldLine(DateNameBytes, DateBytes)
BadDateLine == FieldLine(DateNameBytes, BadDateBytes)
SubjectLine == FieldLine(SubjectNameBytes, HiBytes)
LowerSubjectLine == FieldLine(LowerSubjectNameBytes, HiBytes)
PlainLine == FieldLine(ContentTypeNameBytes, TextPlainBytes)
MixedLine == FieldLine(ContentTypeNameBytes, MultipartMixedBytes)
\* "X-A:", a field with an empty value
XLine == XNameBytes \o <<Colon>>

RECURSIVE Blocks(_, _)
\* up to n lines of L, each with its line end
Blocks(L, n) ==
    IF n = 0 THEN { <<>> }
    ELSE { <<>> } \cup { l \o EOL \o b : l \in L, b \in Blocks(L, n - 1) }

\* what may stand before the first field: nothing, a byte order mark, or the
\* "From " line of an mbox file
Prefixes == { <<>>, BOM, EnvelopeBytes \o EOL }

\* how the input goes on after the field lines: it ends, a blank line (the
\* end of the header), "Subj" and "Sub" (the middle of a field name),
\* "Subject:" and "Subject: " (directly after the colon), a field without
\* line end, the "From " line without line end, a folded value of blanks
\* only, and a line that starts with a colon
ReadEndings ==
    { <<>>, EOL, <<LF>>, HalfNameBytes, ShortNameBytes,
      SubjectNameBytes \o <<Colon>>, SubjectNameBytes \o <<Colon, SP>>,
      SubjectLine, EnvelopeBytes,
      SubjectNameBytes \o <<Colon, LF, SP, LF>>, <<Colon>> }

ReadLines ==
    { FromLine, DateLine, BadDateLine, SubjectLine, LowerSubjectLine, XLine, MixedLine }

ReadInputs ==
    { p \o b \o e : p \in Prefixes, b \in Blocks(ReadLines, MaxLines), e \in ReadEndings }

\* header blocks with one From and one Date field and at most one field more
ParseHeaders ==
    UNION { { FromLine \o EOL \o DateLine \o EOL \o x,
              DateLine \o EOL \o FromLine \o EOL \o x,
              x \o FromLine \o EOL \o DateLine \o EOL } :
            x \in { <<>>, SubjectLine \o EOL, PlainLine \o EOL, MixedLine \o EOL } }

\* a header block, the blank line that ends it, and no byte after it
EmptyBodyMessages ==
    { p \o h \o e : p \in Prefixes, h \in ParseHeaders, e \in { EOL, <<LF>> } }

\* "--b"
DelimiterBytes == <<Hyphen, Hyphen>> \o BoundaryBytes

\* a section of a multipart: the delimiter line, the header of the part and
\* the blank line that ends it, the body and its line end
SectionSet ==
    { DelimiterBytes \o EOL \o ph \o EOL \o body \o EOL :
        ph \in { <<>>, PlainLine \o EOL }, body \in { BodyBytes, <<>> } }

RECURSIVE Sections(_)
\* k sections in a row
Sections(k) ==
    IF k = 0 THEN { <<>> }
    ELSE { x \o y : x \in SectionSet, y \in Sections(k - 1) }

\* "--b--" and its line end
Closing == DelimiterBytes \o <<Hyphen, Hyphen>> \o EOL

\* k sections of which none is closed by "--b--"
Unterminated(k) == Sections(k)

\* multipart bodies: closed by "--b--" and a line end, by "--b--" as the
\* last bytes, or not closed
MultipartBodies ==
    UNION { { b \o Closing, b \o DelimiterBytes \o <<Hyphen, Hyphen>>, b } :
            b \in UNION { Sections(k) : k \in 1..MaxParts } }

\* messages with a multipart/mixed header and a multipart body
MultipartMessages ==
    { h \o EOL \o b :
        h \in { FromLine \o EOL \o DateLine \o EOL \o MixedLine \o EOL,
                MixedLine \o EOL \o FromLine \o EOL \o DateLine \o EOL },
        b \in MultipartBodies }

ParseInputs == EmptyBodyMessages \cup MultipartMessages

\* what parseMultipart is handed: a multipart body, with or without a line
\* before its first delimiter
Preambles == { <<>>, PreambleBytes \o EOL }
MultipartInputs == { p \o b : p \in Preambles, b \in MultipartBodies }

(* ----------------------- reading and parsing --------------------------- *)

\* a program that holds the bytes it is about to read
InitBytes(inputs) ==
    /\ rfc5322 \in inputs
    /\ Fields = <<>>
    /\ mode = RFC5322Header
    /\ defaultType = TextPlainContentType
    /\ err = <<>>
    /\ verified = FALSE
    /\ failure = "none"
    /\ op = "new"
    /\ pre = NoPre
    /\ ret = FALSE
    /\ log = <<>>
    /\ numBytes = 0
    /\ Parts = <<>>
    /\ tree = <<>>
    /\ arg = <<>>
    /\ out = <<>>

\* the state after ReadHeader has returned read, or has failed
ReadHeaderReturns(m, read) ==
    /\ Install(read.h)
    /\ mode' = m
    /\ numBytes' = read.numBytes
    /\ failure' = read.failure
    /\ op' = "ReadHeader"
    /\ UNCHANGED <<defaultType, pre, ret, log, rfc5322, Parts, calls>>

\* h, err := ReadHeader(rfc5322, m)
CallReadHeader(m) ==
    /\ op = "new"
    /\ ReadHeaderReturns(m, ReadHeader(rfc5322, m))

InitRead == InitBytes(ReadInputs)
NextRead == \E m \in {RFC5322Header, MIMEHeader} : CallReadHeader(m)
SpecRead == InitRead /\ [][NextRead]_vars

\* the state after Parse has returned, or has failed
ParseReturns(parsed) ==
    /\ Install(parsed.h)
    /\ numBytes' = parsed.numBytes
    /\ Parts' = parsed.Parts
    /\ failure' = parsed.failure
    /\ op' = "Parse"
    /\ UNCHANGED <<mode, defaultType, pre, ret, log, rfc5322, calls>>

\* err := m.Parse(rfc5322)
CallParse ==
    /\ op = "new"
    /\ ParseReturns(Parse(rfc5322))

InitParse == InitBytes(ParseInputs)
NextParse == CallParse
SpecParse == InitParse /\ [][NextParse]_vars

\* the state after parseMultipart has returned, or has failed
ParseMultipartReturns(st) ==
    /\ Parts' = st.Parts
    /\ failure' = st.failure
    /\ op' = "parseMultipart"
    /\ UNCHANGED <<Fields, err, verified, mode, defaultType, pre, ret, log,
                   rfc5322, numBytes, calls>>

\* p.parseMultipart(rfc5322, "b", digest)
CallParseMultipart(digest) ==
    /\ op = "new"
    /\ ParseMultipartReturns(parseMultipart(rfc5322, BoundaryBytes, digest))

InitMultipart == InitBytes(MultipartInputs)
NextMultipart == \E digest \in BOOLEAN : CallParseMultipart(digest)
SpecMultipart == InitMultipart /\ [][NextMultipart]_vars

(* --------------------------- looking up parts -------------------------- *)

\* most children of a Part in the messages BodyPart is called on
MaxChildren == 2
\* most bytes of a part number handed to BodyPart
MaxPath == 3

\* the leaves under the Part with the id p: numbered from 1, as
\* parseMultipart numbers them
Leaves(p, k) == [j \in 1..k |-> NewNode(10 * p + j, j, "parsed", <<>>)]

\* the Parts of a parsed Message: up to MaxChildren parts, each with up to
\* MaxChildren parts of its own
ParsedTrees ==
    UNION { { [i \in 1..k |-> NewNode(i, i, "parsed", Leaves(i, f[i]))] :
              f \in [1..k -> 0..MaxChildren] } : k \in 0..MaxChildren }

\* "0", "1", "2", "3", ".", and "x" for a byte that is neither
PathBytes == { Zero, Zero + 1, Zero + 2, Zero + 3, Dot, 120 }

PathsOfLength(n) == [1..n -> PathBytes]
Paths == UNION { PathsOfLength(n) : n \in 0..MaxPath }

InitBodyPart ==
    /\ tree \in ParsedTrees
    /\ Fields = <<>>
    /\ mode = RFC5322Header
    /\ defaultType = TextPlainContentType
    /\ err = <<>>
    /\ verified = FALSE
    /\ failure = "none"
    /\ op = "new"
    /\ pre = NoPre
    /\ ret = FALSE
    /\ log = <<>>
    /\ rfc5322 = <<>>
    /\ numBytes = 0
    /\ Parts = <<>>
    /\ arg = <<>>
    /\ out = <<>>

\* the state after BodyPart has returned
BodyPartReturns(s, create, st) ==
    /\ pre' = [tree |-> tree]
    /\ tree' = st.tree
    /\ arg' = [s |-> s, create |-> create]
    /\ out' = st.bp
    /\ op' = "BodyPart"
    /\ UNCHANGED <<Fields, err, verified, mode, defaultType, failure, ret, log, parsing>>

\* bp := m.BodyPart(s, create); the Parts it allocates get the ids from 100
CallBodyPart(s, create, spare) ==
    /\ op = "new"
    /\ BodyPartReturns(s, create, BodyPart(tree, s, create, spare, 100))

NextBodyPart ==
    \E s \in Paths, create \in BOOLEAN, spare \in BOOLEAN : CallBodyPart(s, create, spare)
SpecBodyPart == InitBodyPart /\ [][NextBodyPart]_vars

(* ------------------------- repairing what was read --------------------- *)

\* results of NewHeaderField that Repair is handed: "Mime-Version: 1.0",
\* "Mime-Version: 2.0" (parseMimeVersion keeps 1.0 and notes the problem),
\* "Subject: Hi" and "From: a@x.example"
RepairCatalogue ==
    { TextField(MIMEVersionFieldName, "1.0", FALSE),
      TextField(MIMEVersionFieldName,
                "1.0(Note: Original mime-version had syntax problems)", FALSE),
      TextField(SubjectFieldName, "Hi", FALSE),
      NewAddressField(FromFieldName, <<AddrA>>, FALSE) }

\* a header as ReadHeader builds it, not yet verified
InitRepair ==
    /\ Fields \in UNION { [1..n -> RepairCatalogue] : n \in 0..MaxFields }
    /\ mode \in {RFC5322Header, MIMEHeader}
    /\ defaultType = TextPlainContentType
    /\ err = <<>>
    /\ verified = FALSE
    /\ failure = "none"
    /\ op = "new"
    /\ pre = NoPre
    /\ ret = FALSE
    /\ log = <<>>
    /\ rfc5322 = <<>>
    /\ numBytes = 0
    /\ Parts = <<>>
    /\ tree = <<>>
    /\ arg = <<>>
    /\ out = <<>>

NextRepair == CallRepair
SpecRepair == InitRepair /\ [][NextRepair]_vars

(* ----------------------- repairing with the body ----------------------- *)

\* results of NewHeaderField that the two repairs are handed: "Subject: Hi",
\* a Date that parses and one that does not, "Content-Transfer-Encoding:
\* 7bit", "Content-Type: text/plain", "Return-Path: <a@x.example>" and
\* "From: a@x.example"
RescueCatalogue ==
    { TextField(SubjectFieldName, "Hi", FALSE),
      TextField(DateFieldName, "Sat, 01 Jan 2000 00:00:00 +0000", FALSE),
      TextField(DateFieldName, "", TRUE),
      NewContentTransferEncoding("7bit", BinaryEncoding, FALSE),
      NewContentType("text", "plain", <<>>, FALSE),
      NewAddressField(ReturnPathFieldName, <<AddrA>>, FALSE),
      NewAddressField(FromFieldName, <<AddrA>>, FALSE) }

\* the header of a message as ReadHeader builds it, not yet verified
InitRescue ==
    /\ Fields \in UNION { [1..n -> RescueCatalogue] : n \in 0..MaxFields }
    /\ mode \in {RFC5322Header, MIMEHeader}
    /\ defaultType = TextPlainContentType
    /\ err = <<>>
    /\ verified = FALSE
    /\ failure = "none"
    /\ op = "new"
    /\ pre = NoPre
    /\ ret = FALSE
    /\ log = <<>>
    /\ rfc5322 = <<>>
    /\ numBytes = 0
    /\ Parts = <<>>
    /\ tree = <<>>
    /\ arg = <<>>
    /\ out = <<>>

\* h.Repair() as Parse calls it on the header it has read
CallRepairFirst ==
    /\ op = "new"
    /\ CallRepair

\* h.RepairWithBody(m.Part, "") right after h.Repair(), as in Parse; pre
\* stays what Repair found, the header before the two repairs
CallRepairWithBody ==
    /\ op = "Repair"
    /\ failure = "none"
    /\ Install(RepairWithBody(Header, mode))
    /\ op' = "RepairWithBody"
    /\ UNCHANGED <<mode, defaultType, failure, pre, ret, log, parsing, calls>>

NextRescue ==
    \/ CallRepairFirst
    \/ CallRepairWithBody

SpecRescue == InitRescue /\ [][NextRescue]_vars

(* ------------------------- encoding and decoding ----------------------- *)

\* most bytes of the short strings handed to e64
MaxBytes == 4
\* most bytes behind the start of a line handed to eQP
MaxTail == 4

\* a call of a function on strings with one of args as its argument
InitArg(args) ==
    /\ arg \in args
    /\ out = <<>>
    /\ tree = <<>>
    /\ Fields = <<>>
    /\ mode = RFC5322Header
    /\ defaultType = TextPlainContentType
    /\ err = <<>>
    /\ verified = FALSE
    /\ failure = "none"
    /\ op = "new"
    /\ pre = NoPre
    /\ ret = FALSE
    /\ log = <<>>
    /\ rfc5322 = <<>>
    /\ numBytes = 0
    /\ Parts = <<>>

\* the state after the function named name has returned v
Returns(name, v) ==
    /\ out' = v
    /\ op' = name
    /\ UNCHANGED <<Fields, err, verified, mode, defaultType, failure, pre, ret, log,
                   parsing, tree, arg>>

\* n bytes that start at b and differ from place to place
Pattern(b, n) == [k \in 1..n |-> (b * k + k - 1) % 256]

\* byte strings for e64: short ones with every byte value at every place,
\* and ones long enough to fill a line of 72
Base64Inputs ==
    { Pattern(b, n) : b \in 0..255, n \in 0..MaxBytes }
        \cup { Pattern(b, n) : b \in {0, 85, 255}, n \in 53..56 }

LineLengths == {0, 1, 4, 72}

\* encoded := e64(s, lineLength)
CallE64 ==
    /\ op = "new"
    /\ Returns("e64", e64(arg.s, arg.lineLength))

\* de64(encoded)
CallDe64 ==
    /\ op = "e64"
    /\ Returns("de64", de64(out))

InitBase64 == InitArg([s : Base64Inputs, lineLength : LineLengths])
NextBase64 == CallE64 \/ CallDe64
SpecBase64 == InitBase64 /\ [][NextBase64]_vars

\* 71 times "a": a line that is full after two more bytes
LongLine == [k \in 1..71 |-> 97]

\* space, "a", "=", CR and LF
QPBytes == { SP, 97, Equals, CR, LF }

\* strings for eQP: at the start of a line or behind LongLine, up to MaxTail
\* of QPBytes; and a tab, an 8-bit byte, "From " and "--" at the start of a
\* line
QPInputs ==
    { p \o x : p \in { <<>>, LongLine },
               x \in UNION { [1..n -> QPBytes] : n \in 0..MaxTail } }
        \cup { p \o x \o <<97, LF>> : p \in { <<>>, <<97, LF>>, LongLine },
                 x \in { <<HT>>, <<233>>, <<SP, HT>>, FromBytes, <<Hyphen, Hyphen>>,
                         <<UnitSeparator>>, <<127>>, <<255, 0>> } }

\* encoded := eQP(s, false, from)
CallEQP ==
    /\ op = "new"
    /\ Returns("eQP", eQP(arg.s, FALSE, arg.from))

\* deQP(encoded, false)
CallDeQP ==
    /\ op = "eQP"
    /\ Returns("deQP", deQP(out, FALSE))

InitQP == InitArg([s : QPInputs, from : BOOLEAN])
NextQP == CallEQP \/ CallDeQP
SpecQP == InitQP /\ [][NextQP]_vars

(* ------------------------- writing and parsing addresses --------------- *)

\* longest address list that is written and parsed
MaxList == 2

\* display names: none, "N", "a"
AddressNames == { <<>>, <<78>>, <<97>> }

\* localparts: none, "a", "b"
Localparts == { <<>>, <<97>>, <<98>> }

\* domains: none, "x.org"
Domains == { <<>>, <<120, 46, 111, 114, 103>> }

\* the addresses NewAddress builds of them: normal, local and bounce
\* addresses and empty groups.  A normal address without localpart is left
\* out: its text has a quoted localpart.
AddressSet ==
    { Addr(n, l, d) : n \in AddressNames, l \in Localparts, d \in Domains }
        \ { Addr(n, <<>>, d) : n \in AddressNames, d \in Domains \ {<<>>} }

RECURSIVE AddressListText(_, _)
\* the texts of the addresses from the k-th on, joined by ", "
AddressListText(as, k) ==
    IF toString(as[k]).failure # "none" \/ k = Len(as) THEN toString(as[k])
    ELSE IF AddressListText(as, k + 1).failure # "none"
         THEN AddressListText(as, k + 1)
         ELSE Ok(toString(as[k]).val \o <<Comma, SP>> \o AddressListText(as, k + 1).val)

\* the list is written: a.toString(false) for each address
CallToString ==
    /\ op = "new"
    /\ Returns("toString", AddressListText(arg, 1))

\* NewAddressParser on the text
CallNewAddressParser ==
    /\ op = "toString"
    /\ out.failure = "none"
    /\ Returns("NewAddressParser", NewAddressParser(out.val))

InitAddress == InitArg(UNION { [1..n -> AddressSet] : n \in 1..MaxList })
NextAddress == CallToString \/ CallNewAddressParser
SpecAddress == InitAddress /\ [][NextAddress]_vars

(* ------------------------- writing and parsing fields ------------------ *)

\* most bytes behind the start of a Mime-Version value
MaxValue == 3

\* the bytes of Mime-Version values: 1 . 0 ( ) a \ and the space
VersionBytes == {49, Dot, 48, OpenParen, CloseParen, 97, Backslash, SP}

\* Mime-Version values: nothing or 1.0, and up to MaxValue bytes behind it
VersionValues ==
    { start \o tail : start \in {<<>>, OneZeroBytes},
                       tail \in UNION { [1..n -> VersionBytes] : n \in 0..MaxValue } }

\* the names and values NewHeaderField is called with
FieldLines ==
    { [name |-> MimeVersionNameBytes, value |-> v] : v \in VersionValues }
        \cup { [name |-> DateNameBytes, value |-> DateBytes],
               [name |-> DateNameBytes, value |-> BadDateBytes],
               [name |-> SubjectNameBytes, value |-> HiBytes],
               [name |-> XNameBytes, value |-> <<>>] }

\* Field.Name() in bytes
NameBytes(f) ==
    CASE f.name = MIMEVersionFieldName -> MimeVersionNameBytes
      [] f.name = DateFieldName -> DateNameBytes
      [] f.name = SubjectFieldName -> SubjectNameBytes
      [] f.name = "X-A" -> XNameBytes

\* HeaderField.rfc822(false) in bytes: f.value, which wrap leaves as it is
\* when it is short
HeaderFieldRfc822(f) ==
    CASE f.name = MIMEVersionFieldName -> f.value
      [] f.name = DateFieldName /\ f.value = "" -> <<>>
      [] f.name = DateFieldName /\ f.value # "" -> DateBytes
      [] f.name = SubjectFieldName -> HiBytes
      [] f.name = "X-A" -> <<>>

\* F := NewHeaderField(name, value)
CallNewHeaderField ==
    /\ op = "new"
    /\ Returns("NewHeaderField", NewHeaderField(arg.name, arg.value))

\* F.rfc822(false)
CallRfc822 ==
    /\ op = "NewHeaderField"
    /\ out.failure = "none"
    /\ Returns("rfc822", [failure |-> "none", F |-> out.val,
                          text |-> HeaderFieldRfc822(out.val)])

\* what NewHeaderField(F.Name(), text).rfc822(false) gives
Rewritten(F, text, again) ==
    [failure |-> again.failure, F |-> F, text |-> text,
     again |-> IF again.failure = "none" THEN HeaderFieldRfc822(again.val) ELSE <<>>]

\* NewHeaderField(F.Name(), F.rfc822(false)).rfc822(false)
CallNewHeaderFieldAgain ==
    /\ op = "rfc822"
    /\ Returns("NewHeaderFieldAgain",
               Rewritten(out.F, out.text, NewHeaderField(NameBytes(out.F), out.text)))

InitField == InitArg(FieldLines)
NextField == CallNewHeaderField \/ CallRfc822 \/ CallNewHeaderFieldAgain
SpecField == InitField /\ [][NextField]_vars

(* ------------------------- repairing the Sender ------------------------ *)

\* results of NewHeaderField that Repair is handed: "From: a@x.example",
\* "From: a@x.example, b@x.example", a Date, "Sender: a@x.example",
\* "Sender: b@x.example", "Sender:" without an address, and "Sender:
\* a@x.example, b@x.example", for which parseMailbox records "Only one
\* address is allowed" and keeps both addresses
SenderCatalogue ==
    { NewAddressField(FromFieldName, <<AddrA>>, FALSE),
      NewAddressField(FromFieldName, <<AddrA, AddrB>>, FALSE),
      TextField(DateFieldName, "Sat, 01 Jan 2000 00:00:00 +0000", FALSE),
      NewAddressField(SenderFieldName, <<AddrA>>, FALSE),
      NewAddressField(SenderFieldName, <<AddrB>>, FALSE),
      NewAddressField(SenderFieldName, <<>>, FALSE),
      NewAddressField(SenderFieldName, <<AddrA, AddrB>>, TRUE) }

\* a header as ReadHeader builds it, not yet verified
InitSender ==
    /\ Fields \in UNION { [1..n -> SenderCatalogue] : n \in 0..MaxFields }
    /\ mode \in {RFC5322Header, MIMEHeader}
    /\ defaultType = TextPlainContentType
    /\ err = <<>>
    /\ verified = FALSE
    /\ failure = "none"
    /\ op = "new"
    /\ pre = NoPre
    /\ ret = FALSE
    /\ log = <<>>
    /\ rfc5322 = <<>>
    /\ numBytes = 0
    /\ Parts = <<>>
    /\ tree = <<>>
    /\ arg = <<>>
    /\ out = <<>>

\* h.Repair() on the header that was read
CallRepairRead ==
    /\ op = "new"
    /\ CallRepair

NextSender == CallRepairRead
SpecSender == InitSender /\ [][NextSender]_vars

(* ------------------------- repairing the Date -------------------------- *)

\* results of NewHeaderField that the two repairs are handed: a Date that
\* parses and one that does not, a Received field that ends in a date and
\* one without a date, and "From: a@x.example"
DateCatalogue ==
    { TextField(DateFieldName, "Sat, 01 Jan 2000 00:00:00 +0000", FALSE),
      TextField(DateFieldName, "", TRUE),
      TextField(ReceivedFieldName, ReceivedText, FALSE),
      TextField(ReceivedFieldName, "by x.example", FALSE),
      NewAddressField(FromFieldName, <<AddrA>>, FALSE) }

\* the header of a message as ReadHeader builds it, not yet verified
InitDate ==
    /\ Fields \in UNION { [1..n -> DateCatalogue] : n \in 0..MaxFields }
    /\ mode \in {RFC5322Header, MIMEHeader}
    /\ defaultType = TextPlainContentType
    /\ err = <<>>
    /\ verified = FALSE
    /\ failure = "none"
    /\ op = "new"
    /\ pre = NoPre
    /\ ret = FALSE
    /\ log = <<>>
    /\ rfc5322 = <<>>
    /\ numBytes = 0
    /\ Parts = <<>>
    /\ tree = <<>>
    /\ arg = <<>>
    /\ out = <<>>

NextDate ==
    \/ CallRepairFirst
    \/ CallRepairWithBody

SpecDate == InitDate /\ [][NextDate]_vars

(* ------------------------------- claims -------------------------------- *)

\* the validity the occurrence table defines: every field valid and, for
\* each condition of the header's own mode, min <= count <= max
TableValid(F, m) ==
    /\ \A i \in DOMAIN F : FieldValid(F[i])
    /\ \A i \in DOMAIN conditions :
          conditions[i].m = m =>
              /\ conditions[i].min <= Occurrences(F, conditions[i].name)
              /\ Occurrences(F, conditions[i].name) <= conditions[i].max

\* C1: Valid() is true exactly when every field is valid and every
\* occurrence condition of the header's own mode holds; the conditions of
\* the other mode have no influence.
C1_ValidIffTableOfOwnMode ==
    op = "Valid" => (ret <=> TableValid(Fields, mode))

AtMostOne(F, names) == \A n \in names : Occurrences(F, n) <= 1

\* the occurrence table as the claim spells it out
OccurrenceTable(F, m) ==
    IF m = RFC5322Header
    THEN /\ Occurrences(F, FromFieldName) = 1
         /\ Occurrences(F, DateFieldName) = 1
         /\ AtMostOne(F, { SenderFieldName, ReplyToFieldName, ToFieldName,
                           CcFieldName, BccFieldName, MessageIDFieldName,
                           ReferencesFieldName, SubjectFieldName,
                           MIMEVersionFieldName, ContentTypeFieldName,
                           ContentTransferEncodingFieldName, ReturnPathFieldName })
    ELSE AtMostOne(F, { MIMEVersionFieldName, ContentTypeFieldName,
                        ContentTransferEncodingFieldName })

\* C2: whenever Valid() returns true, the occurrence table holds for the
\* header's mode.
C2_ValidImpliesOccurrenceTable ==
    (op = "Valid" /\ ret) => OccurrenceTable(Fields, mode)

\* C3: Repair is monotone: called on a header for which Valid() is true it
\* completes, leaves the field list as it was, and Valid() is still true.
C3_RepairMonotone ==
    (op = "Repair" /\ pre.valid) =>
        /\ failure = "none"
        /\ Fields = pre.Fields
        /\ Valid(Header, mode)

\* Repair has run on a valid MIME-mode header that carries a
\* Content-Transfer-Encoding next to a multipart Content-Type, which is
\* what the later passes of Repair would take apart
C3_Witness ==
    /\ op = "Repair" /\ pre.valid
    /\ Named(Fields, ContentTransferEncodingFieldName) # {}
    /\ \E i \in Named(Fields, ContentTypeFieldName) : Fields[i].Type = "multipart"

\* C4: for a header for which Valid() is true before Simplify(), verifying
\* the resulting field list from scratch succeeds.
C4_SimplifyPreservesValidity ==
    (op = "Simplify" /\ pre.valid) => verifyErr(Fields, mode) = <<>>

\* what identifies a field across Simplify, which rewrites address lists
\* and parameters in place
Ident(f) == [name |-> f.name, value |-> f.value, err |-> f.err,
             Type |-> f.Type, Subtype |-> f.Subtype]

Idents(F) == [i \in DOMAIN F |-> Ident(F[i])]

RECURSIVE IsSubSequence(_, _)
\* s can be obtained from t by deleting elements
IsSubSequence(s, t) ==
    IF s = <<>> THEN TRUE
    ELSE IF t = <<>> THEN FALSE
    ELSE IF Head(s) = Head(t) THEN IsSubSequence(Tail(s), Tail(t))
         ELSE IsSubSequence(s, Tail(t))

\* C5: Simplify never adds a field: the field list after the call is a
\* sub-sequence of the field list before it.
C5_SimplifyNeverAdds ==
    op = "Simplify" => IsSubSequence(Idents(Fields), Idents(pre.Fields))

\* a field Simplify may append to the list F0 it was called on
SimplifyMayAppend(f, F0, m, dt) ==
    \/ /\ Ident(f) = Ident(NewContentType("message", "rfc822", <<>>, FALSE))
       /\ dt = MessageRFC822ContentType
       /\ Named(F0, ContentTypeFieldName) = {}
    \/ /\ Ident(f) = Ident(TextField(MIMEVersionFieldName, "1.0", FALSE))
       /\ m = RFC5322Header
       /\ Named(F0, MIMEVersionFieldName) = {}

\* C5 as amended: the list after Simplify is a sub-sequence of the list
\* before, followed by at most two appended fields, which can only be
\* "Content-Type: message/rfc822" (default type message/rfc822, no
\* Content-Type before) and "Mime-Version: 1.0" (RFC5322 mode, no
\* Mime-Version before).
C5_SimplifyAddsOnlyDefaults ==
    op = "Simplify" =>
        \E k \in 0..2 :
            /\ k <= Len(Fields)
            /\ IsSubSequence(Idents(SubSeq(Fields, 1, Len(Fields) - k)),
                             Idents(pre.Fields))
            /\ \A i \in (Len(Fields) - k + 1)..Len(Fields) :
                  SimplifyMayAppend(Fields[i], pre.Fields, mode, defaultType)
            /\ \A i, j \in (Len(Fields) - k + 1)..Len(Fields) :
                  Fields[i].name = Fields[j].name => i = j

\* Simplify has run on a valid header, dropped a field and appended both a
\* Content-Type and a Mime-Version that were not there before
C5_Witness ==
    /\ op = "Simplify" /\ pre.valid
    /\ Named(pre.Fields, MIMEVersionFieldName) = {}
    /\ Named(Fields, MIMEVersionFieldName) # {}
    /\ Named(pre.Fields, ContentTypeFieldName) = {}
    /\ Named(Fields, ContentTypeFieldName) # {}
    /\ Named(pre.Fields, ContentTransferEncodingFieldName) # {}
    /\ Named(Fields, ContentTransferEncodingFieldName) = {}

\* C8: Repair never throws: it runs to completion on every header, also on
\* an invalid one with a Content-Transfer-Encoding and no Content-Type.
C8_RepairNeverThrows ==
    op = "Repair" => failure = "none"

RECURSIVE LoggedAddresses(_, _)
\* the address lists of the logged fields named n, concatenated in call order
LoggedAddresses(l, n) ==
    IF l = <<>> THEN <<>>
    ELSE (IF Head(l).name = n THEN Head(l).Addresses ELSE <<>>)
         \o LoggedAddresses(Tail(l), n)

\* C9: after any sequence of Add calls on an empty header there is at most
\* one field for each of To, Cc, Bcc, Reply-To and From, and it holds the
\* addresses of all added fields of that name, in call order.
C9_AddMergesAddressFields ==
    \A n \in MergedNames :
        /\ Occurrences(Fields, n) <= 1
        /\ (\E i \in DOMAIN log : log[i].name = n) =>
              /\ Occurrences(Fields, n) = 1
              /\ Fields[field(Fields, n, 0)].Addresses = LoggedAddresses(log, n)

\* three Add calls of the same merged name, with another field in between
\* two names
C9_Witness ==
    /\ Len(log) = 3
    /\ \E n \in MergedNames :
          /\ Cardinality({ i \in DOMAIN log : log[i].name = n }) = 2
          /\ log[1].name = n /\ log[3].name = n
          /\ Len(Fields) = 2
          /\ Len(Fields[1].Addresses) = 3

\* C6: ReadHeader never fails: whatever the bytes are, it completes without
\* a read outside of them and leaves 0 <= numBytes <= len(rfc5322).
C6_ReadHeaderNeverFails ==
    op = "ReadHeader" =>
        /\ failure = "none"
        /\ numBytes >= 0
        /\ numBytes <= Len(rfc5322)

\* C7: Message.Parse completes without a runtime failure for every input
\* that is a header block followed by an empty body.
C7_ParseCompletesOnEmptyBody ==
    (op = "Parse" /\ rfc5322 \in EmptyBodyMessages) => failure = "none"

\* C10: parseMultipart on a body whose closing "--b--" line is missing
\* completes without a runtime failure and leaves one part per section.
C10_MissingTerminatorYieldsAllParts ==
    \A k \in 1..MaxParts :
        (op = "parseMultipart" /\ rfc5322 \in { p \o b : p \in Preambles, b \in Unterminated(k) })
            => (failure = "none" /\ Len(Parts) = k)

\* C11: after parseMultipart the children are numbered consecutively from 1
\* in the order of their sections in the input: the k-th element of Parts
\* (counted from 1 here, from 0 in the code) has Number k, and its section
\* lies behind the section of the element before it.
C11_PartsNumberedInOrder ==
    op = "parseMultipart" =>
        \A k \in DOMAIN Parts :
            /\ Parts[k].Number = k
            /\ k > 1 => Parts[k - 1].end <= Parts[k].start

\* parseMultipart has returned two parts
C11_Witness ==
    /\ op = "parseMultipart"
    /\ failure = "none"
    /\ Len(Parts) = 2

RECURSIVE SplitDots(_)
\* the components of a dotted path: the bytes between its dots
SplitDots(s) ==
    IF \A k \in DOMAIN s : s[k] # Dot THEN <<s>>
    ELSE << SubSeq(s, 1, (CHOOSE k \in DOMAIN s : s[k] = Dot /\ \A j \in 1..(k - 1) : s[j] # Dot) - 1) >>
         \o SplitDots(SubSeq(s, (CHOOSE k \in DOMAIN s : s[k] = Dot /\ \A j \in 1..(k - 1) : s[j] # Dot) + 1, Len(s)))

\* a decimal number: one digit or more
IsDecimal(c) == c # <<>> /\ \A k \in DOMAIN c : c[k] >= Zero /\ c[k] <= Nine

RECURSIVE Walk(_, _, _)
\* the id of the part reached from the parts cs by the components comps,
\* each naming the child with that Number; 0 when a component is 0, is not
\* a decimal number or names no child; cur is the part reached so far
Walk(cs, comps, cur) ==
    IF comps = <<>> THEN cur
    ELSE IF ~IsDecimal(Head(comps)) THEN 0
    ELSE IF DigitsValue(Head(comps)) = 0 THEN 0
    ELSE IF \A k \in DOMAIN cs : cs[k].Number # DigitsValue(Head(comps)) THEN 0
    ELSE Walk(cs[CHOOSE k \in DOMAIN cs : cs[k].Number = DigitsValue(Head(comps))].Parts,
              Tail(comps),
              cs[CHOOSE k \in DOMAIN cs : cs[k].Number = DigitsValue(Head(comps))].id)

WithoutLastDot(s) ==
    IF s # <<>> /\ s[Len(s)] = Dot THEN SubSeq(s, 1, Len(s) - 1) ELSE s

RECURSIVE CountIn(_, _)
\* how often the Part with the id p stands in the lists under cs
CountIn(cs, p) ==
    IF cs = <<>> THEN 0
    ELSE (IF Head(cs).id = p THEN 1 ELSE 0) + CountIn(Head(cs).Parts, p) + CountIn(Tail(cs), p)

RECURSIVE IdsOf(_)
IdsOf(cs) ==
    IF cs = <<>> THEN {}
    ELSE {Head(cs).id} \cup IdsOf(Head(cs).Parts) \cup IdsOf(Tail(cs))

RECURSIVE OrderedByNumber(_)
\* every Parts list is ordered by part number
OrderedByNumber(cs) ==
    /\ \A k \in 1..(Len(cs) - 1) : cs[k].Number < cs[k + 1].Number
    /\ \A k \in DOMAIN cs : OrderedByNumber(cs[k].Parts)

\* C14: BodyPart(path, true) for a path that names no existing part attaches
\* the parts it creates: BodyPart(path, false) right after it returns the
\* same part, every part that was there before is still there exactly once,
\* and each Parts list is ordered by part number.
C14_CreateAttaches ==
    ( /\ op = "BodyPart"
      /\ arg.create
      /\ out.kind # "nil"
      /\ Walk(pre.tree, SplitDots(WithoutLastDot(arg.s)), 0) = 0 )
    => /\ BodyPart(tree, arg.s, FALSE, FALSE, 200).bp.id = out.id
       /\ \A p \in IdsOf(pre.tree) : CountIn(tree, p) = 1
       /\ OrderedByNumber(tree)

\* a header without a From field and without a Return-Path or Sender field
\* to take an address from
NoSenderToUse(F) ==
    \A n \in {FromFieldName, ReturnPathFieldName, SenderFieldName} :
        Occurrences(F, n) = 0

\* the header holds one From field, a valid one, with the one address
\* invalid@invalid.invalid
OneInvalidFrom(F) ==
    /\ Occurrences(F, FromFieldName) = 1
    /\ FieldValid(F[field(F, FromFieldName, 0)])
    /\ lpdomain(F[field(F, FromFieldName, 0)].Addresses[1]) = "invalid@invalid.invalid"
    /\ Len(F[field(F, FromFieldName, 0)].Addresses) = 1

\* C15: when Repair and then RepairWithBody have been called on an RFC 5322
\* header without From field and without a usable Return-Path or Sender
\* (the other fields an address could come from are not in the headers of
\* this run), both calls return and the header holds exactly one From
\* field, which is valid and has invalid@invalid.invalid as its only address.
C15_MissingFromIsInvalidInvalid ==
    ( /\ mode = RFC5322Header
      /\ op \in {"Repair", "RepairWithBody"}
      /\ NoSenderToUse(pre.Fields)
      /\ op = "RepairWithBody" \/ failure # "none" )
    => /\ failure = "none"
       /\ OneInvalidFrom(Fields)

\* equal addresses: name and localpart the same, domains the same but for
\* case
SameAddress(a, b) ==
    /\ a.name = b.name
    /\ a.Localpart = b.Localpart
    /\ TitleBytes(a.Domain) = TitleBytes(b.Domain)

\* a list of normal addresses, no two of them with the same localpart and
\* domain
DistinctMailboxes(as) ==
    /\ \A k \in DOMAIN as : AddressType(as[k]) = NormalAddressType
    /\ \A k, l \in DOMAIN as :
           k # l => UniquifyBytesKey(as[k]) # UniquifyBytesKey(as[l])

\* C12: the parser returns the addresses of a comma-separated list of
\* distinct well-formed addresses in the order of the text: the k-th
\* address parsed is the k-th address written, the first being the leftmost.
C12_AddressesInInputOrder ==
    (op = "NewAddressParser" /\ DistinctMailboxes(arg))
    => /\ out.failure = "none"
       /\ Len(out.Addresses) = Len(arg)
       /\ \A k \in DOMAIN arg : SameAddress(out.Addresses[k], arg[k])

\* C17: an address that is written with toString(false) and parsed with
\* NewAddressParser comes back as the first address of the list, with the
\* same name and localpart and the same domain but for case.
C17_AddressRoundTrip ==
    (op = "NewAddressParser" /\ Len(arg) = 1)
    => /\ out.failure = "none"
       /\ Len(out.Addresses) >= 1
       /\ SameAddress(out.Addresses[1], arg[1])

\* C16: writing a field that NewHeaderField has made, parsing the text again
\* under the field's name and writing the result gives the same text:
\* NewHeaderField(F.Name(), F.rfc822(false)).rfc822(false) == F.rfc822(false).
C16_FieldWritingIsIdempotent ==
    op = "NewHeaderFieldAgain"
    => /\ out.failure = "none"
       /\ out.again = out.text

\* C20: after Repair on an invalid header with two or more Mime-Version
\* fields, whatever their values, exactly one Mime-Version field remains.
C20_RepairLeavesOneMimeVersion ==
    ( /\ op = "Repair"
      /\ failure = "none"
      /\ ~pre.valid
      /\ Occurrences(pre.Fields, MIMEVersionFieldName) >= 2 )
    => Occurrences(Fields, MIMEVersionFieldName) = 1

\* C18: the base64 decoder is a left inverse of the encoder:
\* de64(e64(s, n)) = s for every byte string s and every line length n >= 0.
C18_Base64RoundTrip ==
    op = "de64" => out = arg.s

\* a string of more than 54 bytes has gone through lines of 72 and back
C18_Witness ==
    /\ op = "de64"
    /\ arg.lineLength = 72
    /\ Len(arg.s) = 55
    /\ out = arg.s

\* C19: the quoted-printable decoder is a left inverse of the encoder:
\* deQP(eQP(s, false, from), false) = s, also for lines of more than 72
\* bytes, spaces before a line end, bare CR, '=' and 8-bit bytes.
C19_QPRoundTrip ==
    op = "deQP" => out = arg.s

\* a line of more than 72 bytes with a space near its end has come back
C19_Witness ==
    /\ op = "deQP"
    /\ Len(arg.s) > 73
    /\ \E k \in 72..Len(arg.s) : arg.s[k] = SP
    /\ arg.s[Len(arg.s)] = 97
    /\ out = arg.s

\* the addresses of the first field named fn, as a set
AddressSetOf(F, fn) == { Addresses(F, fn)[k] : k \in DOMAIN Addresses(F, fn) }

\* C21: Repair on an invalid header removes the Sender field only when each
\* of its addresses is also in the From field: a Sender field with an
\* address that From does not hold is still in the header after Repair.
C21_SenderKeptUnlessInFrom ==
    ( /\ op = "Repair"
      /\ failure = "none"
      /\ ~pre.valid
      /\ Occurrences(pre.Fields, SenderFieldName) > 0
      /\ ~(AddressSetOf(pre.Fields, SenderFieldName)
              \subseteq AddressSetOf(pre.Fields, FromFieldName)) )
    => Occurrences(Fields, SenderFieldName) > 0

\* the Date fields of the field list F, in order
DateFields(F) == SelectSeq(F, LAMBDA f : f.name = DateFieldName)

\* C22: RepairWithBody adds a Date field only where there is none or an
\* invalid one: an invalid RFC5322 header with one Date field, a valid one,
\* has the same Date fields after RepairWithBody, also with a Received
\* field that carries a date.
C22_ValidDateIsKept ==
    ( /\ op = "RepairWithBody"
      /\ mode = RFC5322Header
      /\ ~pre.valid
      /\ Len(DateFields(pre.Fields)) = 1
      /\ FieldValid(DateFields(pre.Fields)[1]) )
    => DateFields(Fields) = DateFields(pre.Fields)

\* a Content-Type: text/plain without parameters
PlainContentType(f) ==
    /\ f.name = ContentTypeFieldName
    /\ f.Type = "text" /\ f.Subtype = "plain"
    /\ Len(f.Parameters) = 0

\* C23: after Simplify on a valid header with the default type text/plain
\* there is no parameterless Content-Type: text/plain in a header without
\* Content-Transfer-Encoding, Content-Disposition and Content-Description,
\* also where that Simplify has removed a binary Content-Transfer-Encoding.
C23_PlainContentTypeRemoved ==
    ( /\ op = "Simplify"
      /\ pre.valid
      /\ defaultType = TextPlainContentType
      /\ Named(Fields, ContentTransferEncodingFieldName) = {}
      /\ Named(Fields, ContentDispositionFieldName) = {}
      /\ Named(Fields, ContentDescriptionFieldName) = {} )
    => \A i \in DOMAIN Fields : ~PlainContentType(Fields[i])

(* --------------------------- mark and restore -------------------------- *)

\* a parserState; the states of a Parser are written as the sequence that
\* the next pointers link, the current state last, and nil as <<>>
ParserState(at, e, m) == [at |-> at, err |-> e, mark |-> m]
Current(p) == p[Len(p)]

newParserState(other) ==
    IF other # <<>>
    THEN Append(other, ParserState(Current(other).at, <<>>, Current(other).mark + 1))
    ELSE <<ParserState(0, <<>>, 1)>>

\* the fields at and err of the embedded *parserState
WithAt(p, at) == [p EXCEPT ![Len(p)].at = at]
WithErr(p, e) == [p EXCEPT ![Len(p)].err = e]

Step(p, n) == WithAt(p, Current(p).at + n)

Present(p, str, s) ==
    IF s = <<>> THEN [p |-> p, ok |-> TRUE]
    ELSE IF Current(p).at + Len(s) > Len(str) THEN [p |-> p, ok |-> FALSE]
    ELSE IF LowerBytes(Slice(str, Current(p).at, Current(p).at + Len(s))) # LowerBytes(s)
         THEN [p |-> p, ok |-> FALSE]
         ELSE [p |-> Step(p, Len(s)), ok |-> TRUE]

following(p, str) ==
    IF Current(p).at >= Len(str) THEN Ok(<<>>)
    ELSE IF Len(str) - Current(p).at > 15
         THEN simplify(Slice(str, Current(p).at, Current(p).at + 15))
         ELSE simplify(Slice(str, Current(p).at, Len(str)))

\* the error of require: the text expected and the text that follows
require(p, str, s) ==
    IF ~Present(p, str, s).ok THEN WithErr(p, <<s, following(p, str)>>)
    ELSE Present(p, str, s).p

\* mark() returns the mark of the state that was current before the call
mark_Current(p) == [p |-> newParserState(p), m |-> Current(newParserState(p)).mark]
mark(p) == [p |-> newParserState(p), m |-> newParserState(p)[Len(p)].mark]

\* the loop of restore: c is the state restore looks at, with those it links
RECURSIVE restoreLoop(_, _)
restoreLoop(c, m) ==
    IF c # <<>> /\ Current(c).mark # m /\ Len(c) > 1
    THEN restoreLoop(SubSeq(c, 1, Len(c) - 1), m)
    ELSE c

restoreFound(p, c, m) == IF c # <<>> /\ Current(c).mark = m THEN c ELSE p
restore(p, m) == restoreFound(p, restoreLoop(p, m), m)

\* bounds: the marks a caller holds at one time, and the steps past the end
MaxMarks == 2
MaxPast == 1

\* the text "Ab" and what Present and require are asked for
MarkTexts == { [str |-> <<65, 98>>] }
MarkWords == { <<97>>, <<66>>, <<97, 98>> }

\* the caller's book: the Parser, and for every mark it holds the cursor and
\* the error slot from before that mark()
Book(p, held, last) == [p |-> p, held |-> held, last |-> last]
NoMark == [m |-> 0, at |-> 0, err |-> <<>>]
Moved(p, held) == Book(p, held, [want |-> NoMark, was |-> Current(p)])

CallNewParser ==
    /\ op = "new"
    /\ Returns("NewParser", Moved(newParserState(<<>>), <<>>))

ParserCalled == op \in {"NewParser", "Step", "Present", "require", "mark", "restore"}

CallStep ==
    /\ ParserCalled
    /\ Current(out.p).at < Len(arg.str) + MaxPast
    /\ Returns("Step", Moved(Step(out.p, 1), out.held))

CallPresent ==
    /\ ParserCalled
    /\ \E s \in MarkWords :
          Returns("Present", Moved(Present(out.p, arg.str, s).p, out.held))

CallRequire ==
    /\ ParserCalled
    /\ \E s \in MarkWords :
          Returns("require", Moved(require(out.p, arg.str, s), out.held))

\* m := p.mark()
Marked(p, held, r) ==
    Moved(r.p, Append(held, [m |-> r.m, at |-> Current(p).at, err |-> Current(p).err]))

CallMark ==
    /\ ParserCalled
    /\ Len(out.held) < MaxMarks
    /\ Returns("mark", Marked(out.p, out.held, mark(out.p)))

\* p.restore(m) for a mark m the caller holds; the marks taken after m are
\* given up
CallRestore ==
    /\ ParserCalled
    /\ \E k \in DOMAIN out.held :
          Returns("restore",
                  Book(restore(out.p, out.held[k].m), SubSeq(out.held, 1, k - 1),
                       [want |-> out.held[k], was |-> Current(out.p)]))

InitMark == InitArg(MarkTexts)
NextMark ==
    CallNewParser \/ CallStep \/ CallPresent \/ CallRequire \/ CallMark \/ CallRestore
SpecMark == InitMark /\ [][NextMark]_vars

\* C24: restore(m) puts the cursor and the error slot back to what they were
\* immediately before the mark() that returned m, whatever steps, Present,
\* require, mark and restore calls came in between; an error raised in
\* between is gone.
C24_RestoreUndoes ==
    op = "restore" =>
        /\ Current(out.p).at = out.last.want.at
        /\ Current(out.p).err = out.last.want.err

\* a restore that takes back steps and an error raised behind two marks
C24_Witness ==
    /\ op = "restore"
    /\ out.last.want.err = <<>>
    /\ out.last.was.err # <<>>
    /\ out.last.was.at # out.last.want.at
    /\ out.last.was.mark > out.last.want.m + 1
    /\ Current(out.p).err = <<>>

\* a restore that brings back the error the parser had before the mark
C24_WitnessError ==
    /\ op = "restore"
    /\ out.last.want.err # <<>>
    /\ out.last.was.err # out.last.want.err

(* ----------------------------- encodedWord ----------------------------- *)

EncodedText == "EncodedText"
EncodedComment == "EncodedComment"
EncodedPhrase == "EncodedPhrase"

QuestionMark == 63
Asterisk == 42

ParserValid(p) == Current(p).err = <<>>

\* the bytes the charset loop of encodedWord steps past: not ( ) < > @ , ;
\* : [ ] ? = \ " / .
CharsetByte(c) ==
    /\ c > 32 /\ c < 128
    /\ c \notin {OpenParen, CloseParen, Less, Greater, AtSign, Comma, Semicolon,
                 Colon, 91, 93, QuestionMark, Equals, Backslash, DoubleQuote, 47, Dot}

RECURSIVE CharsetEnd(_, _)
CharsetEnd(str, at) ==
    IF CharsetByte(NextChar(str, at)) THEN CharsetEnd(str, at + 1) ELSE at

\* section(cs, "*", 1) where cs contains '*'
RECURSIVE sectionOne(_, _)
sectionOne(cs, sep) ==
    IF cs = <<>> \/ cs[1] = sep THEN <<>>
    ELSE <<cs[1]>> \o sectionOne(Tail(cs), sep)

CharsetName(cs) ==
    IF \E k \in DOMAIN cs : cs[k] = Asterisk THEN sectionOne(cs, Asterisk) ELSE cs

IsDigitOrLetter(c) == c \in 48..57 \/ c \in 97..122 \/ c \in 65..90

\* the bytes of the encoded-text: + / = with digits and letters for base64;
\* for q, what the type t allows
EncodedByte(c, encoding, t) ==
    IF encoding = Base64Encoding
    THEN IsDigitOrLetter(c) \/ c \in {43, 47, Equals}
    ELSE /\ c > 32 /\ c < 128 /\ c # QuestionMark
         /\ (t # EncodedComment \/ c \notin {OpenParen, CloseParen, Backslash})
         /\ (t # EncodedPhrase \/ IsDigitOrLetter(c)
                \/ c \in {33, Asterisk, 45, 47, Equals, Underscore, 39})

RECURSIVE EncodedEnd(_, _, _, _)
EncodedEnd(str, at, encoding, t) ==
    IF EncodedByte(NextChar(str, at), encoding, t)
    THEN EncodedEnd(str, at + 1, encoding, t) ELSE at

\* the names for which charset.NewReader of the go-charset library returns
\* a reader: us-ascii and utf-8 of its registry
UsAsciiBytes == <<117, 115, 45, 97, 115, 99, 105, 105>>
Utf8Bytes == <<117, 116, 102, 45, 56>>
KnownCharsets == { UsAsciiBytes, Utf8Bytes }

\* what encodedWord leaves: the Parser, the return statement it took
\* ("syntax": not an encoded-word, "charset": unknown character set,
\* "done": the last one) and the string returned
Word(p, stage, result) == [p |-> p, stage |-> stage, result |-> result]

\* cr, err := charset.NewReader(cs, r) and what follows; a us-ascii or utf-8
\* reader hands on bytes under 128 as they are, and a result without CR,
\* LF and byte 8 is returned as read
WordDecoded(p, text, cs, m) ==
    CASE cs \notin KnownCharsets ->
             Word(restore(WithErr(p, <<"Unknown character set", cs>>), m), "charset", <<>>)
      [] /\ cs \in KnownCharsets
         /\ \A k \in DOMAIN text : text[k] < 128 /\ text[k] \notin {CR, LF, 8} ->
             Word(p, "done", text)

\* p.require("?=") has run
WordClosed(p, text, encoding, cs, m) ==
    IF ~ParserValid(p) THEN Word(restore(p, m), "syntax", <<>>)
    ELSE WordDecoded(p, IF encoding = QPEncoding THEN deQP(text, FALSE) ELSE de64(text),
                     cs, m)

\* the second p.require("?") has run
WordText(p, end, encoding, cs, m, str) ==
    WordClosed(require(WithAt(p, end), str, <<QuestionMark, Equals>>),
               Slice(str, Current(p).at, end), encoding, cs, m)

WordEncoded(p, encoding, cs, m, str, t) ==
    WordText(p, EncodedEnd(str, Current(p).at, encoding, t), encoding, cs, m, str)

\* the first p.require("?") has run
WordEncoding(p, cs, m, str, t) ==
    IF Present(p, str, <<113>>).ok
    THEN WordEncoded(require(Present(p, str, <<113>>).p, str, <<QuestionMark>>),
                     QPEncoding, cs, m, str, t)
    ELSE IF Present(p, str, <<98>>).ok
    THEN WordEncoded(require(Present(p, str, <<98>>).p, str, <<QuestionMark>>),
                     Base64Encoding, cs, m, str, t)
    ELSE WordEncoded(require(WithErr(p, <<"Unknown encoding", NextChar(str, Current(p).at)>>),
                             str, <<QuestionMark>>),
                     QPEncoding, cs, m, str, t)

WordCharset(p, end, m, str, t) ==
    WordEncoding(require(WithAt(p, end), str, <<QuestionMark>>),
                 CharsetName(Slice(str, Current(p).at, end)), m, str, t)

\* p.require("=?") has run
WordOpened(p, m, str, t) ==
    IF ~ParserValid(p) THEN Word(restore(p, m), "syntax", <<>>)
    ELSE WordCharset(p, CharsetEnd(str, Current(p).at), m, str, t)

WordMarked(r, str, t) == WordOpened(require(r.p, str, <<Equals, QuestionMark>>), r.m, str, t)

encodedWord(p, str, t) == WordMarked(mark(p), str, t)

\* "=?" charset "?" encoding "?" encoded-text "?=" for the charsets us-ascii,
\* utf-8, utf-8*en, x and x-y, the encodings q, Q, b, B and x and the
\* encoded-texts a, d_e and YQ==, complete and without the last byte
WordCharsets == { UsAsciiBytes, Utf8Bytes, Utf8Bytes \o <<Asterisk, 101, 110>>,
                  <<120>>, <<120, 45, 121>> }
WordEncodings == { <<113>>, <<81>>, <<98>>, <<66>>, <<120>> }
WordTexts == { <<97>>, <<100, Underscore, 101>>, <<89, 81, Equals, Equals>> }
EncodedWordOf(cs, e, text) ==
    <<Equals, QuestionMark>> \o cs \o <<QuestionMark>> \o e \o <<QuestionMark>>
        \o text \o <<QuestionMark, Equals>>
EncodedWords ==
    { EncodedWordOf(cs, e, text) : cs \in WordCharsets, e \in WordEncodings,
                                   text \in WordTexts }
WordArgs ==
    { [str |-> w, t |-> t] :
        w \in EncodedWords \cup { SubSeq(x, 1, Len(x) - 1) : x \in EncodedWords },
        t \in {EncodedText, EncodedComment, EncodedPhrase} }

\* p := NewParser(str); p.encodedWord(t)
CallEncodedWord ==
    /\ op = "new"
    /\ Returns("encodedWord", encodedWord(newParserState(<<>>), arg.str, arg.t))

InitWord == InitArg(WordArgs)
NextWord == CallEncodedWord
SpecWord == InitWord /\ [][NextWord]_vars

\* C25: when encodedWord returns from a complete encoded-word whose charset
\* the registry does not know, the error slot of the parser is set.
C25_UnknownCharsetSetsError ==
    (op = "encodedWord" /\ out.stage = "charset") => ~ParserValid(out.p)

(* --------------------------- guessTextCodec ---------------------------- *)

Escape == 27

\* the err of decode(body, enc): charset.NewWriter and Write belong to the
\* go-charset library, so whether a writer takes the body is an input
\* (accepts), but for us-ascii, which takes the bytes under 128
PureAscii(body) == \A k \in DOMAIN body : body[k] < 128
decodeErr(body, enc, accepts) ==
    IF enc = "us-ascii" THEN ~PureAscii(body) ELSE ~accepts[enc]

\* body[0] == 0x1B && (body[1] == '(' || body[1] == '$') && (body[2] == 'B'
\* || body[2] == 'J' || body[2] == '@'), with the index each test reads
LeadSequence(body) ==
    IF Len(body) < 1 THEN Panic("index out of range")
    ELSE IF At(body, 0) # Escape THEN Ok(FALSE)
    ELSE IF Len(body) < 2 THEN Panic("index out of range")
    ELSE IF At(body, 1) \notin {OpenParen, 36} THEN Ok(FALSE)
    ELSE IF Len(body) < 3 THEN Panic("index out of range")
    ELSE Ok(At(body, 2) \in {66, 74, 64})

\* steps 2, 3 and 5
guessAfterLead(body, accepts) ==
    IF decodeErr(body, "us-ascii", accepts) THEN Ok("us-ascii")
    ELSE IF decodeErr(body, "utf8", accepts) THEN Ok("utf8")
    ELSE Ok("nil")

guessFromLead(body, accepts, lead) ==
    IF lead.failure # "none" THEN Panic(lead.failure)
    ELSE IF lead.val /\ decodeErr(body, "iso-2022-jp", accepts) THEN Ok("iso-2022-jp")
    ELSE guessAfterLead(body, accepts)

guessTextCodec(body, accepts) == guessFromLead(body, accepts, LeadSequence(body))

\* bodies of up to MaxBody bytes of ESC, '(', 'B', 'a' and byte 200, with
\* the answers of the iso-2022-jp and utf8 writers; the utf8 writer takes
\* what the us-ascii writer takes
MaxBody == 3
CodecBytes == {Escape, OpenParen, 66, 97, 200}
Bodies == UNION { [1..n -> CodecBytes] : n \in 0..MaxBody }
CodecArgs ==
    { r \in [body : Bodies, accepts : [{"iso-2022-jp", "utf8"} -> BOOLEAN]] :
        PureAscii(r.body) => r.accepts["utf8"] }

CallGuessTextCodec ==
    /\ op = "new"
    /\ Returns("guessTextCodec", guessTextCodec(arg.body, arg.accepts))

InitCodec == InitArg(CodecArgs)
NextCodec == CallGuessTextCodec
SpecCodec == InitCodec /\ [][NextCodec]_vars

\* the codecs guessTextCodec tries on a body, in its order
Tried(body) ==
    IF LeadSequence(body).failure = "none" /\ LeadSequence(body).val
    THEN <<"iso-2022-jp", "us-ascii", "utf8">> ELSE <<"us-ascii", "utf8">>

\* C26: guessTextCodec returns the first of iso-2022-jp (tried only behind
\* the ESC lead sequence), us-ascii and utf-8 whose decoder takes the whole
\* body, and none only when every decoder tried fails; a pure-ASCII body
\* that is not empty gives us-ascii.
C26_FirstAcceptingCodec ==
    (op = "guessTextCodec" /\ out.failure = "none") =>
        /\ \A k \in DOMAIN Tried(arg.body) :
              ( /\ ~decodeErr(arg.body, Tried(arg.body)[k], arg.accepts)
                /\ \A j \in 1..(k - 1) :
                      decodeErr(arg.body, Tried(arg.body)[j], arg.accepts) )
              => out.val = Tried(arg.body)[k]
        /\ out.val = "nil" =>
              \A k \in DOMAIN Tried(arg.body) :
                  decodeErr(arg.body, Tried(arg.body)[k], arg.accepts)
        /\ (arg.body # <<>> /\ PureAscii(arg.body) /\ ~LeadSequence(arg.body).val)
              => out.val = "us-ascii"

\* C27: the answer of Valid() is never stale: after any sequence of Add,
\* RemoveAt, RemoveAllNamed, Repair and Simplify it is the answer of a
\* verification of the fields the header has now.
C27_ValidIsNeverStale ==
    op = "Valid" => (ret <=> verifyErr(Fields, mode) = <<>>)

\* C28: Simplify is idempotent: on a header that was valid when Simplify was
\* called, a second Simplify leaves the field list as the first has left it.
C28_SimplifyIsIdempotent ==
    (op = "Simplify" /\ pre.valid) =>
        Simplify(Header, mode, defaultType).Fields = Fields

(* ---------------- parseBodypart: Content-Transfer-Encoding ------------- *)

\* the Encoding that ContentTransferEncoding.Parse sets with a base value
EncodingOfBase(v) ==
    CASE v = "7bit" -> BinaryEncoding
      [] v = "quoted-printable" -> QPEncoding
      [] v = "base64" -> Base64Encoding

\* MimeField.addParameter, on the list of parameter names
addParameter(ps, n) == IF \E k \in DOMAIN ps : ps[k] = n THEN ps ELSE Append(ps, n)

\* what parseBodypart asks of the body text: equals is strings.Contains(body,
\* "="), qp is needsQP of the decoded body, pgp is strings.Contains(body,
\* "BEGIN PGP MESSAGE"), ascii is whether the codec c, which the go-charset
\* library settles, has the name us-ascii
BodyTests == [equals : BOOLEAN, qp : BOOLEAN, pgp : BOOLEAN, ascii : BOOLEAN]

\* if !strings.Contains(body, "=") { ... }: quoted-printable next to another
\* Content-Transfer-Encoding field
BodypartDuplicates(h, t) ==
    IF /\ ~t.equals
       /\ \E i \in Named(h.Fields, ContentTransferEncodingFieldName) :
             h.Fields[i].Encoding = QPEncoding
       /\ Cardinality(Named(h.Fields, ContentTransferEncodingFieldName)) > 1
    THEN hRemoveAllNamed(h, ContentTransferEncodingFieldName)
    ELSE h

\* ct := h.ContentType(); if ct == nil { ... }
BodypartContentType(h, dt) ==
    IF field(h.Fields, ContentTypeFieldName, 0) # 0 THEN h
    ELSE IF dt = TextPlainContentType
         THEN addField(h, NewContentType("text", "plain", <<>>, FALSE))
         ELSE addField(h, NewContentType("message", "rfc822", <<>>, FALSE))

\* the end of the text branch: cte is the index of the first
\* Content-Transfer-Encoding field, 0 for nil
BodypartTextEncoding(h, cte, t) ==
    IF cte # 0
    THEN IF ~t.qp THEN hRemoveAllNamed(h, ContentTransferEncodingFieldName)
         ELSE IF h.Fields[cte].Encoding # QPEncoding
              THEN [h EXCEPT !.Fields[cte].Encoding = QPEncoding]
              ELSE h
    ELSE IF t.qp
         THEN addField(h, NewContentTransferEncoding("quoted-printable", QPEncoding, FALSE))
         ELSE h

\* the charset parameter of the text branch
BodypartCharset(h, ct, t) ==
    IF ~t.ascii THEN [h EXCEPT !.Fields[ct].Parameters = addParameter(@, "charset")]
    ELSE [h EXCEPT !.Fields[ct].Parameters = removeParameter(@, "charset")]

\* e of the other branch; pgp-signature is the subtype of the catalogue that
\* has the prefix "pgp-"
BodypartDataEncoding(f, t) ==
    IF f.Type = "application" /\ f.Subtype \in {"pgp-signature"} /\ ~t.qp
    THEN BinaryEncoding
    ELSE IF f.Type = "application" /\ f.Subtype = "octet-stream" /\ t.pgp
         THEN BinaryEncoding
         ELSE Base64Encoding

\* change c-t-e to match the encoding decided above
BodypartData(h, cte, e) ==
    IF e = BinaryEncoding THEN hRemoveAllNamed(h, ContentTransferEncodingFieldName)
    ELSE IF cte # 0 THEN [h EXCEPT !.Fields[cte].Encoding = e]
         ELSE addField(h, NewContentTransferEncoding("base64", Base64Encoding, FALSE))

BodypartBranch(h, ct, t) ==
    IF h.Fields[ct].Type = "text"
    THEN BodypartTextEncoding(BodypartCharset(h, ct, t),
                              field(h.Fields, ContentTransferEncodingFieldName, 0), t)
    ELSE IF h.Fields[ct].Type \notin {"multipart", "message"}
         THEN BodypartData(h, field(h.Fields, ContentTransferEncodingFieldName, 0),
                           BodypartDataEncoding(h.Fields[ct], t))
         ELSE h

BodypartTyped(h, t) == BodypartBranch(h, field(h.Fields, ContentTypeFieldName, 0), t)

\* what parseBodypart does to the header h of a leaf part, for a body text
\* on which its first reads succeed
parseBodypartHeader(h, dt, t) ==
    BodypartTyped(BodypartContentType(BodypartDuplicates(h, t), dt), t)

\* results of NewHeaderField that ReadHeader hands on: the Content-Type
\* fields of leaf parts and the Content-Transfer-Encoding fields 7bit,
\* quoted-printable and base64
LeafCatalogue ==
    { NewContentType("text", "plain", <<>>, FALSE),
      NewContentType("application", "pdf", <<>>, FALSE),
      NewContentType("application", "pgp-signature", <<>>, FALSE),
      NewContentType("application", "octet-stream", <<>>, FALSE),
      NewContentTransferEncoding("7bit", BinaryEncoding, FALSE),
      NewContentTransferEncoding("quoted-printable", QPEncoding, FALSE),
      NewContentTransferEncoding("base64", Base64Encoding, FALSE) }

\* the header of a body part as ReadHeader builds it
InitLeaf ==
    /\ Fields \in UNION { [1..n -> LeafCatalogue] : n \in 0..MaxFields }
    /\ mode = MIMEHeader
    /\ defaultType = TextPlainContentType
    /\ err = <<>>
    /\ verified = FALSE
    /\ failure = "none"
    /\ op = "new"
    /\ pre = NoPre
    /\ ret = FALSE
    /\ log = <<>>
    /\ rfc5322 = <<>>
    /\ numBytes = 0
    /\ Parts = <<>>
    /\ tree = <<>>
    /\ arg = <<>>
    /\ out = <<>>

\* bp := p.parseBodypart(rfc5322, h)
CallParseBodypart(t) ==
    /\ op = "new"
    /\ Install(parseBodypartHeader(Header, defaultType, t))
    /\ op' = "parseBodypart"
    /\ pre' = Before
    /\ arg' = t
    /\ UNCHANGED <<mode, defaultType, failure, ret, log, parsing, tree, out>>

NextLeaf == \E t \in BodyTests : CallParseBodypart(t)
SpecLeaf == InitLeaf /\ [][NextLeaf]_vars

\* C29: on the header of a leaf part that parseBodypart returns, every
\* Content-Transfer-Encoding field is written with the base value of the
\* encoding its Encoding attribute holds, also where parseBodypart has
\* changed the encoding.
C29_EncodingMatchesBaseValue ==
    op = "parseBodypart" =>
        \A i \in Named(Fields, ContentTransferEncodingFieldName) :
            EncodingOfBase(Fields[i].value) = Fields[i].Encoding

(* ---------------------------- sameAddresses ---------------------------- *)

\* address lists of 1 to MaxSame addresses of a@x.example, b@x.example and
\* a@X.EXAMPLE, as the Addresses of two fields that are there
MaxSame == 2
SameAddrs == { AddrA, AddrB, Addr("", "a", "X.EXAMPLE") }
SameLists == UNION { [1..n -> SameAddrs] : n \in 1..MaxSame }
SameArgs == [l : SameLists, m : SameLists]

\* sameAddresses(a, b) and sameAddresses(b, a)
CallSameAddresses ==
    /\ op = "new"
    /\ Returns("sameAddresses",
               [ab |-> sameAddresses(FALSE, arg.l, FALSE, arg.m),
                ba |-> sameAddresses(FALSE, arg.m, FALSE, arg.l)])

InitSame == InitArg(SameArgs)
NextSame == CallSameAddresses
SpecSame == InitSame /\ [][NextSame]_vars

\* the localpart@domain keys of an address list
SameKeys(l) == { SameKey(l[i]) : i \in DOMAIN l }

\* C30: sameAddresses(a, b) equals sameAddresses(b, a), and it is true only
\* if every key of a occurs in b and every key of b occurs in a.
C30_SameAddressesSymmetric ==
    op = "sameAddresses" =>
        /\ out.ab = out.ba
        /\ out.ab => SameKeys(arg.l) = SameKeys(arg.m)

====
